---- MODULE Spec2Model ----
(***************************************************************************)
(* The retrieval pipeline of h2obot's backend                              *)
(* (backend-ts/src/retrievers/officialSources.ts, fetchAuthoritative and   *)
(* what it calls), as a state machine.                                     *)
(*                                                                         *)
(* JavaScript strings are sequences of one-character strings, so that      *)
(* includes, endsWith, toLowerCase, split and the regular expressions of   *)
(* the source are computed character by character.  Instants are whole     *)
(* days; an optional value (publishedAt, score, a header) is the empty     *)
(* sequence when absent and a one-element sequence when present.           *)
(***************************************************************************)
EXTENDS Integers, Sequences, FiniteSets, TLC

----------------------------------------------------------------------------
(* String primitives of the JavaScript runtime.                            *)

UpperChars == <<"A","B","C","D","E","F","G","H","I","J","K","L","M","N","O","P","Q","R","S","T","U","V","W","X","Y","Z">>
LowerChars == <<"a","b","c","d","e","f","g","h","i","j","k","l","m","n","o","p","q","r","s","t","u","v","w","x","y","z">>
DigitChars == <<"0","1","2","3","4","5","6","7","8","9">>

\* JavaScript evaluates an argument once, before the call: With(v, F) is
\* F applied to the value of v.
With(v, F(_)) == CHOOSE r \in { F(x) : x \in { v } } : TRUE

Range(s) == { s[i] : i \in DOMAIN s }

UpperSet == Range(UpperChars)
LowerSet == Range(LowerChars)
DigitSet == Range(DigitChars)
\* String.prototype.toLowerCase on one upper-case letter
LowerOf == [c \in UpperSet |-> LowerChars[CHOOSE i \in DOMAIN UpperChars : UpperChars[i] = c]]

IsUpper(c) == c \in UpperSet
IsLower(c) == c \in LowerSet
IsDigit(c) == c \in DigitSet
\* \w of a JavaScript regular expression
IsWord(c) == IsUpper(c) \/ IsLower(c) \/ IsDigit(c) \/ c = "_"
\* \s of a JavaScript regular expression (the white space the inputs use)
IsSpace(c) == c \in {" ", "\t", "\n"}

Min(a, b) == IF a <= b THEN a ELSE b
Max(a, b) == IF a >= b THEN a ELSE b

lowerChar(c) == IF IsUpper(c) THEN LowerOf[c] ELSE c

toLowerCase(s) == With(s, LAMBDA x : [i \in DOMAIN x |-> lowerChar(x[i])])

\* s.slice(0, n)
slice0(s, n) == With(s, LAMBDA x : SubSeq(x, 1, Min(n, Len(x))))

\* whether t occurs in s starting at (1-based) position i
matchAt(s, t, i) == i >= 1 /\ i + Len(t) - 1 <= Len(s) /\ SubSeq(s, i, i + Len(t) - 1) = t

includes(s, t) ==
  With(s, LAMBDA x : With(t, LAMBDA y :
    \/ y = <<>>
    \/ \E i \in 1..(Len(x) - Len(y) + 1) : x[i] = y[1] /\ matchAt(x, y, i)))

endsWith(s, t) ==
  With(s, LAMBDA x : With(t, LAMBDA y :
    Len(y) <= Len(x) /\ SubSeq(x, Len(x) - Len(y) + 1, Len(x)) = y))

\* the positions of s that hold no white space
inkPositions(s) == { i \in DOMAIN s : ~IsSpace(s[i]) }

minOf(S) == CHOOSE i \in S : \A j \in S : i <= j
maxOf(S) == CHOOSE i \in S : \A j \in S : i >= j

trimStart(s) ==
  With(s, LAMBDA x :
    IF inkPositions(x) = {} THEN <<>> ELSE SubSeq(x, minOf(inkPositions(x)), Len(x)))

trimEnd(s) ==
  With(s, LAMBDA x :
    IF inkPositions(x) = {} THEN <<>> ELSE SubSeq(x, 1, maxOf(inkPositions(x))))

trim(s) == trimEnd(trimStart(s))

\* the elements of s at the positions in keep, in order
RECURSIVE pick(_, _, _)
pick(s, keep, i) ==
  IF i > Len(s) THEN <<>>
  ELSE (IF i \in keep THEN << s[i] >> ELSE <<>>) \o pick(s, keep, i + 1)

\* s.replace(/\s+/g, ' '): every maximal run of white space becomes one space
collapseSpaces(s) ==
  With(s, LAMBDA x :
    With({ i \in DOMAIN x : ~IsSpace(x[i]) \/ i = 1 \/ ~IsSpace(x[i - 1]) }, LAMBDA keep :
      pick([i \in DOMAIN x |-> IF IsSpace(x[i]) THEN " " ELSE x[i]], keep, 1)))

\* s.split(/\s+/).filter(Boolean): the maximal runs of non-space characters
RECURSIVE splitFrom(_, _)
splitFrom(s, i) ==
  IF i > Len(s) THEN <<>>
  ELSE IF IsSpace(s[i]) THEN splitFrom(s, i + 1)
  ELSE LET stops == { j \in i..Len(s) : IsSpace(s[j]) }
           end == IF stops = {} THEN Len(s) + 1 ELSE minOf(stops)
       IN << SubSeq(s, i, end - 1) >> \o splitFrom(s, end)

splitSpaces(s) == With(s, LAMBDA x : splitFrom(x, 1))

\* the separator-joined concatenation of a sequence of strings (Array.join)
RECURSIVE joinFrom(_, _, _)
joinFrom(parts, sep, i) ==
  IF i > Len(parts) THEN <<>>
  ELSE IF i = Len(parts) THEN parts[i]
  ELSE parts[i] \o sep \o joinFrom(parts, sep, i + 1)

join(parts, sep) == With(parts, LAMBDA ps : joinFrom(ps, sep, 1))

----------------------------------------------------------------------------
(* Location heuristics.                                                    *)

norm(s) == trim(toLowerCase(s))

tokens(s) ==
  With(norm(s), LAMBDA n :
    splitSpaces([i \in DOMAIN n |->
                   IF IsLower(n[i]) \/ IsDigit(n[i]) \/ IsSpace(n[i]) THEN n[i] ELSE " "]))

\* variant: the Texas entry lists a federal domain too
STATE_DOMAINS_withFederal(st) ==
  CASE st = <<"T","X">> -> << <<"t","c","e","q",".","t","e","x","a","s",".","g","o","v">>, <<"a","u","s","t","i","n","t","e","x","a","s",".","g","o","v">>, <<"e","p","a",".","g","o","v">> >>
    [] st = <<"P","A">> -> << <<"d","e","p",".","p","a",".","g","o","v">>, <<"p","g","h","2","o",".","c","o","m">> >>
    [] OTHER -> <<>>

STATE_DOMAINS(st) ==
  CASE st = <<"N","Y">> -> << <<"h","e","a","l","t","h",".","n","y",".","g","o","v">>, <<"n","y","c",".","g","o","v">>, <<"d","e","p",".","n","y","c",".","g","o","v">> >>
    [] st = <<"M","I">> -> << <<"m","i","c","h","i","g","a","n",".","g","o","v">>, <<"c","i","t","y","o","f","f","l","i","n","t",".","c","o","m">>, <<"g","e","n","e","s","e","e","c","o","u","n","t","y","m","i",".","g","o","v">> >>
    [] st = <<"M","S">> -> << <<"m","s","d","h",".","m","s",".","g","o","v">>, <<"j","a","c","k","s","o","n","m","s",".","g","o","v">> >>
    [] st = <<"C","A">> -> << <<"w","a","t","e","r","b","o","a","r","d","s",".","c","a",".","g","o","v">>, <<"c","d","p","h",".","c","a",".","g","o","v">>, <<"o","c","g","o","v",".","c","o","m">>, <<"o","c","s","d",".","o","r","g">> >>
    [] st = <<"T","X">> -> << <<"t","c","e","q",".","t","e","x","a","s",".","g","o","v">>, <<"a","u","s","t","i","n","t","e","x","a","s",".","g","o","v">>, <<"t","r","a","v","i","s","c","o","u","n","t","y","t","x",".","g","o","v">>, <<"a","u","s","t","i","n","w","a","t","e","r",".","o","r","g">> >>
    [] st = <<"F","L">> -> << <<"f","l","o","r","i","d","a","h","e","a","l","t","h",".","g","o","v">>, <<"f","l","o","r","i","d","a","d","e","p",".","g","o","v">> >>
    [] st = <<"P","A">> -> << <<"d","e","p",".","p","a",".","g","o","v">>, <<"p","e","n","n","s","y","l","v","a","n","i","a",".","g","o","v">>, <<"a","l","l","e","g","h","e","n","y","c","o","u","n","t","y",".","u","s">>, <<"p","i","t","t","s","b","u","r","g","h","p","a",".","g","o","v">>, <<"p","g","h","2","o",".","c","o","m">> >>
    [] OTHER -> <<>>

\* the state names of inferStateCode's dictionary, in key order
StateNameDict ==
  << <<<<"n","e","w"," ","y","o","r","k">>, <<"N","Y">>>>, <<<<"m","i","c","h","i","g","a","n">>, <<"M","I">>>>, <<<<"m","i","s","s","i","s","s","i","p","p","i">>, <<"M","S">>>>,
     <<<<"c","a","l","i","f","o","r","n","i","a">>, <<"C","A">>>>, <<<<"t","e","x","a","s">>, <<"T","X">>>>, <<<<"f","l","o","r","i","d","a">>, <<"F","L">>>> >>

\* a word boundary (\b) between positions i and i+1 of s (0 <= i <= Len(s))
wordBoundary(s, i) ==
  LET before == i >= 1 /\ IsWord(s[i])
      after  == i + 1 <= Len(s) /\ IsWord(s[i + 1])
  IN before # after

\* the positions where /\b([A-Z]{2})\b/ matches in s
stateCodeMatches(s) ==
  { i \in 1..(Len(s) - 1) :
      /\ IsUpper(s[i]) /\ IsUpper(s[i + 1])
      /\ wordBoundary(s, i - 1)
      /\ wordBoundary(s, i + 1) }

\* variant: the dictionary of state names is consulted first
inferStateCode_namesFirst(location) ==
  With(norm(location), LAMBDA L :
    With({ k \in DOMAIN StateNameDict : includes(L, StateNameDict[k][1]) }, LAMBDA hits :
      IF hits # {} THEN << StateNameDict[minOf(hits)][2] >>
      ELSE With(stateCodeMatches(location), LAMBDA ms :
        IF ms # {} THEN << SubSeq(location, minOf(ms), minOf(ms) + 1) >> ELSE <<>>)))

\* inferStateCode: the state code as a one-element sequence, or <<>> for null
inferStateCode(location) ==
  With(stateCodeMatches(location), LAMBDA ms :
    IF ms # {} THEN << SubSeq(location, minOf(ms), minOf(ms) + 1) >>
    ELSE With(norm(location), LAMBDA L :
      With({ k \in DOMAIN StateNameDict : includes(L, StateNameDict[k][1]) }, LAMBDA hits :
        IF hits # {} THEN << StateNameDict[minOf(hits)][2] >> ELSE <<>>)))

\* variant: an array push, duplicates kept
setAdd_push(list, x) == Append(list, x)

\* Set.add on an insertion-ordered Set kept as a duplicate-free sequence
setAdd(list, x) == With(list, LAMBDA l : IF x \in Range(l) THEN l ELSE Append(l, x))

RECURSIVE setAddFrom(_, _, _)
setAddFrom(list, xs, i) ==
  IF i > Len(xs) THEN list ELSE setAddFrom(setAdd(list, xs[i]), xs, i + 1)

setAddAll(list, xs) == With(xs, LAMBDA ys : setAddFrom(list, ys, 1))

\* /(^|\b)nyc(\b|$)/ : nyc as a whole word
matchesNycWord(L) ==
  \E i \in 1..Len(L) :
    /\ matchAt(L, <<"n","y","c">>, i)
    /\ (i = 1 \/ wordBoundary(L, i - 1))
    /\ (i + 2 = Len(L) \/ wordBoundary(L, i + 2))

deriveLocalDomainsFor(location, st, L) ==
  LET l0 == IF st # <<>> THEN setAddAll(<<>>, STATE_DOMAINS(st[1])) ELSE <<>>
      l1 == IF \/ matchesNycWord(L)
               \/ includes(L, <<"n","e","w"," ","y","o","r","k"," ","c","i","t","y">>) \/ includes(L, <<"m","a","n","h","a","t","t","a","n">>)
               \/ includes(L, <<"b","r","o","o","k","l","y","n">>) \/ includes(L, <<"q","u","e","e","n","s">>)
               \/ includes(L, <<"b","r","o","n","x">>) \/ includes(L, <<"s","t","a","t","e","n"," ","i","s","l","a","n","d">>)
            THEN setAddAll(l0, << <<"n","y","c",".","g","o","v">>, <<"d","e","p",".","n","y","c",".","g","o","v">> >>) ELSE l0
      l2 == IF includes(L, <<"f","l","i","n","t">>)
            THEN setAddAll(l1, << <<"c","i","t","y","o","f","f","l","i","n","t",".","c","o","m">>, <<"m","i","c","h","i","g","a","n",".","g","o","v">> >>) ELSE l1
      l3 == IF includes(L, <<"j","a","c","k","s","o","n">>) /\ (st = << <<"M","S">> >> \/ includes(L, <<"m","i","s","s","i","s","s","i","p","p","i">>))
            THEN setAddAll(l2, << <<"j","a","c","k","s","o","n","m","s",".","g","o","v">>, <<"m","s","d","h",".","m","s",".","g","o","v">> >>) ELSE l2
      l4 == IF includes(L, <<"t","r","a","v","i","s"," ","c","o","u","n","t","y">>) \/ includes(L, <<"a","u","s","t","i","n">>)
            THEN setAddAll(l3, << <<"t","r","a","v","i","s","c","o","u","n","t","y","t","x",".","g","o","v">>, <<"a","u","s","t","i","n","t","e","x","a","s",".","g","o","v">>,
                                  <<"t","c","e","q",".","t","e","x","a","s",".","g","o","v">>, <<"a","u","s","t","i","n","w","a","t","e","r",".","o","r","g">> >>) ELSE l3
      l5 == IF includes(L, <<"p","i","t","t","s","b","u","r","g","h">>) \/ includes(L, <<"a","l","l","e","g","h","e","n","y">>)
            THEN setAddAll(l4, << <<"p","g","h","2","o",".","c","o","m">>, <<"a","l","l","e","g","h","e","n","y","c","o","u","n","t","y",".","u","s">>,
                                  <<"d","e","p",".","p","a",".","g","o","v">>, <<"p","i","t","t","s","b","u","r","g","h","p","a",".","g","o","v">> >>) ELSE l4
  IN l5

deriveLocalDomains(location) ==
  With(inferStateCode(location), LAMBDA st :
    With(norm(location), LAMBDA L : deriveLocalDomainsFor(location, st, L)))

----------------------------------------------------------------------------
(* Numbers of the source.                                                  *)

SnippetLen == 400
PdfTitleLen == 120
MaxPdfPages == 12
PdfTextCap == 20000
TopN == 6
RecentDays == 60
YearDays == 365
NumQueries == 4

(* Bounds of the model: the day the run happens (the published days of the *)
(* pages below are placed around it), how many results one search response *)
(* carries, the most pages a PDF has, the longest answer text and the      *)
(* largest chunk size the chunking is tried on.                            *)
Now == 1000
MaxResults == 3
MaxNumPages == 13
MaxTextLen == 5
MaxChunkSize == 3

----------------------------------------------------------------------------
(* URLs, hosts and tiers.  A URL is [host, path]; two URLs are the same    *)
(* string exactly when both parts agree.                                   *)

\* host(href): new URL(href).hostname.toLowerCase()
host(href) == toLowerCase(href.host)

\* variant: the suffix test without the leading dot
hostMatchesAllowed_bareSuffix(href, allowed) ==
  With(host(href), LAMBDA h :
    h # <<>> /\ \E k \in DOMAIN allowed :
                  h = allowed[k] \/ endsWith(h, allowed[k]))

hostMatchesAllowed(href, allowed) ==
  With(host(href), LAMBDA h :
    h # <<>> /\ \E k \in DOMAIN allowed :
                  h = allowed[k] \/ endsWith(h, <<".">> \o allowed[k]))

\* variant: the threshold counts only the tokens of length 3 or more
strongLocationMatch_longTokenCount(docTitle, docText, loc) ==
  With({ t \in Range(tokens(loc)) : Len(t) >= 3 }, LAMBDA want :
    With(toLowerCase(docTitle \o <<" ">> \o docText), LAMBDA hay :
      LET hits == Cardinality({ t \in want : includes(hay, t) })
      IN hits >= Min(2, Max(1, Cardinality(want) \div 2))))

strongLocationMatch(docTitle, docText, loc) ==
  With(Range(tokens(loc)), LAMBDA want :
    With(toLowerCase(docTitle \o <<" ">> \o docText), LAMBDA hay :
      LET hits == Cardinality({ t \in want : Len(t) >= 3 /\ includes(hay, t) })
      IN hits >= Min(2, Max(1, Cardinality(want) \div 2))))

DOMAIN_TIERS(h) ==
  CASE h = <<"e","p","a",".","g","o","v">> -> "federal"
    [] h = <<"c","d","c",".","g","o","v">> -> "federal"
    [] h = <<"w","h","o",".","i","n","t">> -> "federal"
    [] OTHER -> "other"

\* variant: the .us rule is missing
tierFor_noUsRule(url) ==
  With(toLowerCase(url.host), LAMBDA h :
    IF endsWith(h, <<".","g","o","v">>)
    THEN (IF includes(h, <<"e","p","a",".","g","o","v">>) \/ includes(h, <<"c","d","c",".","g","o","v">>) THEN "federal" ELSE "state")
    ELSE DOMAIN_TIERS(h))

tierFor(url) ==
  With(toLowerCase(url.host), LAMBDA h :
    IF endsWith(h, <<".","g","o","v">>)
    THEN (IF includes(h, <<"e","p","a",".","g","o","v">>) \/ includes(h, <<"c","d","c",".","g","o","v">>) THEN "federal" ELSE "state")
    ELSE IF endsWith(h, <<".","u","s">>) THEN "local"
    ELSE DOMAIN_TIERS(h))

cleanText(t) == trim(collapseSpaces(t))

----------------------------------------------------------------------------
(* Dates.  A date string (a header value, a meta attribute, the text of a  *)
(* <time> element) is [parses, day]: whether a date can be read from it    *)
(* and, if so, which day.  A JavaScript Date is [valid, t]; an ISO string  *)
(* is [iso |-> t].                                                         *)

\* chrono's parseDate: a Date, or null (<<>>) when no date is recognised
parseDate(str) == IF str.parses THEN << [valid |-> TRUE, t |-> str.day] >> ELSE <<>>

\* new Date(str): an Invalid Date when the string cannot be parsed
newDate(str) == IF str.parses THEN [valid |-> TRUE, t |-> str.day] ELSE [valid |-> FALSE, t |-> 0]

\* Date.prototype.toISOString throws a RangeError on an Invalid Date
toISOStringThrows(d) == ~d.valid
toISOString(d) == [iso |-> d.t]

\* new Date(isoString).getTime()
getTime(isoStr) == isoStr.iso

----------------------------------------------------------------------------
(* Fetching and parsing one URL.  A response is                            *)
(*   [net, status, ct, lastMod, body]                                      *)
(* net: "ok", "error" (fetch rejects) or "hang" (fetch never settles);     *)
(* ct and lastMod are the headers (lastMod <<>> when absent); body is what *)
(* cheerio and pdf.js make of the bytes:                                   *)
(*   [titleTag, mainText, articleText, bodyText, metaDates, timeText,      *)
(*    pdfLoads, pages, pdfDate].                                           *)

\* res.ok
resOk(resp) == resp.status >= 200 /\ resp.status <= 299

\* fetchBuffer throws on a rejected fetch and on a non-2xx status
fetchBufferThrows(resp) == resp.net = "error" \/ ~resOk(resp)

\* [..].find(Boolean): the first present element, or <<>>
RECURSIVE findPresent(_)
findPresent(opts) ==
  IF opts = <<>> THEN <<>>
  ELSE IF Head(opts) # <<>> THEN Head(opts)
  ELSE findPresent(Tail(opts))

extractDateFromHtml(body) ==
  LET meta == findPresent(body.metaDates)
      candidate == IF meta # <<>> THEN meta ELSE body.timeText
      parsed == IF candidate # <<>> THEN parseDate(candidate[1]) ELSE <<>>
  IN IF parsed # <<>> THEN << toISOString(parsed[1]) >> ELSE <<>>

\* a || b for strings: the empty string is falsy
orElse(a, b) == IF a # <<>> THEN a ELSE b

parseHtml(url, body) ==
  With(cleanText(orElse(body.titleTag, <<"U","n","t","i","t","l","e","d">>)), LAMBDA title :
    With(cleanText(orElse(body.mainText, orElse(body.articleText, body.bodyText))), LAMBDA bodyText :
      [ url |-> url, title |-> title, text |-> bodyText,
        snippet |-> cleanText(slice0(bodyText, SnippetLen)),
        publishedAt |-> extractDateFromHtml(body),
        contentType |-> <<"t","e","x","t","/","h","t","m","l">>, tier |-> tierFor(url), score |-> <<>> ]))

\* the page loop of parsePdf: the text chunks after reading pages p..maxPages
RECURSIVE pdfPageLoop(_, _, _, _)
pdfPageLoop(pages, p, maxPages, textChunks) ==
  IF p > maxPages THEN textChunks
  ELSE With(Append(textChunks, join(pages[p], <<" ">>)), LAMBDA chunks :
         IF Len(join(chunks, <<" ">>)) > PdfTextCap THEN chunks
         ELSE pdfPageLoop(pages, p + 1, maxPages, chunks))

\* pdf.js rejects a document it cannot load
parsePdfThrows(body) == ~body.pdfLoads

\* the text of parsePdf: the chunks joined, white space collapsed, trimmed
pdfText(body) ==
  LET maxPages == Min(Len(body.pages), MaxPdfPages)
      textChunks == pdfPageLoop(body.pages, 1, maxPages, <<>>)
      raw == join(textChunks, <<"\n">>)
  IN trim(collapseSpaces(raw))

parsePdf(url, body) ==
  With(pdfText(body), LAMBDA text :
    LET title == orElse(slice0(text, PdfTitleLen), <<"P","D","F">>)
        parsed == IF body.pdfDate # <<>> THEN parseDate(body.pdfDate[1]) ELSE <<>>
    IN [ url |-> url, title |-> title, text |-> text,
         snippet |-> slice0(text, SnippetLen),
         publishedAt |-> IF parsed # <<>> THEN << toISOString(parsed[1]) >> ELSE <<>>,
         contentType |-> <<"a","p","p","l","i","c","a","t","i","o","n","/","p","d","f">>, tier |-> tierFor(url), score |-> <<>> ])

\* the Last-Modified backfill of fetchAndParse; it throws when the header
\* value is used and is no date
backfillThrows(doc, lastMod) ==
  doc.publishedAt = <<>> /\ lastMod # <<>> /\ toISOStringThrows(newDate(lastMod[1]))

\* variant: the header overwrites a date the document gave
backfill_always(doc, lastMod) ==
  IF lastMod # <<>>
  THEN [doc EXCEPT !.publishedAt = << toISOString(newDate(lastMod[1])) >>]
  ELSE doc

backfill(doc, lastMod) ==
  IF doc.publishedAt = <<>> /\ lastMod # <<>>
  THEN [doc EXCEPT !.publishedAt = << toISOString(newDate(lastMod[1])) >>]
  ELSE doc

\* the two lines after a parse: backfill and return, or throw into the catch
backfillOrCatch(doc, lastMod) ==
  With(doc, LAMBDA d :
    IF backfillThrows(d, lastMod) THEN <<>> ELSE << backfill(d, lastMod) >>)

\* variant: any type that is not PDF is read as HTML
fetchAndParse_htmlByDefault(url, resp) ==
  IF fetchBufferThrows(resp) THEN <<>>
  ELSE IF includes(resp.ct, <<"p","d","f">>)
  THEN (IF parsePdfThrows(resp.body) THEN <<>>
        ELSE backfillOrCatch(parsePdf(url, resp.body), resp.lastMod))
  ELSE backfillOrCatch(parseHtml(url, resp.body), resp.lastMod)

\* fetchAndParse for a fetch that settles: <<doc>>, or <<>> for null
fetchAndParse(url, resp) ==
  IF fetchBufferThrows(resp) THEN <<>>
  ELSE IF includes(resp.ct, <<"p","d","f">>)
  THEN (IF parsePdfThrows(resp.body) THEN <<>>
        ELSE backfillOrCatch(parsePdf(url, resp.body), resp.lastMod))
  ELSE IF includes(resp.ct, <<"h","t","m","l">>) \/ includes(resp.ct, <<"t","e","x","t">>)
  THEN backfillOrCatch(parseHtml(url, resp.body), resp.lastMod)
  ELSE <<>>

----------------------------------------------------------------------------
(* Seeds.                                                                  *)

Url(h, p) == [host |-> h, path |-> p]

EPA_CCR == Url(<<"w","w","w",".","e","p","a",".","g","o","v">>, "/ccr")
CDC_ADV == Url(<<"w","w","w",".","c","d","c",".","g","o","v">>, "/healthywater/emergency/drinking/drinking-water-advisories.html")
NYC_DEP == Url(<<"w","w","w",".","n","y","c",".","g","o","v">>, "/site/dep/water/drinking-water-quality-reports.page")
MI_EGLE == Url(<<"w","w","w",".","m","i","c","h","i","g","a","n",".","g","o","v">>, "/egle")
JACKSON == Url(<<"w","w","w",".","j","a","c","k","s","o","n","m","s",".","g","o","v">>, "/")
TX_TCEQ == Url(<<"w","w","w",".","t","c","e","q",".","t","e","x","a","s",".","g","o","v">>, "/drinkingwater")
AUSTIN_WATER == Url(<<"w","w","w",".","a","u","s","t","i","n","t","e","x","a","s",".","g","o","v">>, "/department/water")
PGH2O == Url(<<"w","w","w",".","p","g","h","2","o",".","c","o","m">>, "/your-water/water-quality")
ALLEGHENY == Url(<<"w","w","w",".","a","l","l","e","g","h","e","n","y","c","o","u","n","t","y",".","u","s">>, "/Health-Department")
PA_DEP == Url(<<"w","w","w",".","d","e","p",".","p","a",".","g","o","v">>, "/Citizens/My-Water/Pages/default.aspx")

\* variant: the state seed is pushed without its condition
curatedSeedsFor_unconditional(locals) == << EPA_CCR, CDC_ADV, TX_TCEQ >>

\* variant: the Michigan seed is pushed for every location
curatedSeedsFor_michiganAlways(locals) ==
  LET has(d) == \E k \in DOMAIN locals : locals[k] = d \/ endsWith(locals[k], <<".">> \o d)
      s0 == << EPA_CCR, CDC_ADV, MI_EGLE >>
      s4 == IF has(<<"t","c","e","q",".","t","e","x","a","s",".","g","o","v">>) THEN Append(s0, TX_TCEQ) ELSE s0
  IN s4

curatedSeedsFor(locals) ==
  LET has(d) == \E k \in DOMAIN locals : locals[k] = d \/ endsWith(locals[k], <<".">> \o d)
      s0 == << EPA_CCR, CDC_ADV >>
      s1 == IF has(<<"n","y","c",".","g","o","v">>) \/ has(<<"d","e","p",".","n","y","c",".","g","o","v">>) THEN Append(s0, NYC_DEP) ELSE s0
      s2 == IF has(<<"m","i","c","h","i","g","a","n",".","g","o","v">>) THEN Append(s1, MI_EGLE) ELSE s1
      s3 == IF has(<<"j","a","c","k","s","o","n","m","s",".","g","o","v">>) THEN Append(s2, JACKSON) ELSE s2
      s4 == IF has(<<"t","c","e","q",".","t","e","x","a","s",".","g","o","v">>) THEN Append(s3, TX_TCEQ) ELSE s3
      s5 == IF has(<<"a","u","s","t","i","n","t","e","x","a","s",".","g","o","v">>) \/ has(<<"a","u","s","t","i","n","w","a","t","e","r",".","o","r","g">>) THEN Append(s4, AUSTIN_WATER) ELSE s4
      s6 == IF has(<<"p","g","h","2","o",".","c","o","m">>) THEN Append(s5, PGH2O) ELSE s5
      s7 == IF has(<<"a","l","l","e","g","h","e","n","y","c","o","u","n","t","y",".","u","s">>) THEN Append(s6, ALLEGHENY) ELSE s6
      s8 == IF has(<<"d","e","p",".","p","a",".","g","o","v">>) THEN Append(s7, PA_DEP) ELSE s7
  IN s8

\* variant: the seeds start from an empty list when the location has local domains
curatedSeeds_localInsteadOfFederal(location) ==
  With(curatedSeedsFor(deriveLocalDomains(location)), LAMBDA all :
    IF Len(all) > 2 THEN SubSeq(all, 3, Len(all)) ELSE all)

curatedSeeds(location) == curatedSeedsFor(deriveLocalDomains(location))

\* new Set<string>(curatedSeeds(location))
initialSeeds(location) == setAddAll(<<>>, curatedSeeds(location))

\* A search response is [net, status, jsonOk, isArray, results]: net "ok" or
\* "error" (fetch rejects), jsonOk whether the body parses as JSON, isArray
\* whether json.results is an array, results its URLs in order.

\* tavilySearch throws when fetch rejects or resp.json() rejects
tavilySearchThrows(sr) == sr.net = "error" \/ (resOk(sr) /\ ~sr.jsonOk)

\* the URLs tavilySearch returns when it does not throw
tavilySearch(sr) ==
  IF ~resOk(sr) THEN <<>>
  ELSE IF ~sr.isArray THEN <<>>
  ELSE sr.results

\* variant: the gate tests the key only
searchEnabled_keyOnly(provider, key) == key # <<>>

\* the gate of the search loop
searchEnabled(provider, key) == provider = "tavily" /\ key # <<>>

----------------------------------------------------------------------------
(* Filter, score and rank.                                                 *)

baseAllow == << <<"e","p","a",".","g","o","v">>, <<"c","d","c",".","g","o","v">> >>

\* Array.from(new Set([...baseAllow, ...localAllow]))
allowOf(localDomains) == setAddAll(setAddAll(<<>>, baseAllow), localDomains)

\* variant: the location test is never consulted
keepDoc_hostOnly(d, allowed, loc, strict) ==
  hostMatchesAllowed(d.url, allowed)

\* the filter predicate of fetchAuthoritative
keepDoc(d, allowed, loc, strict) ==
  LET okHost == hostMatchesAllowed(d.url, allowed)
      okLoc == strongLocationMatch(d.title, d.text, loc)
  IN okHost \/ (~strict /\ okLoc)

\* filtered holds the very objects of rawDocs, so the scores written through
\* filtered show in rawDocs too: docs with the scores of scored, which lists
\* the documents of docs at the positions in kept
RECURSIVE aliasScores(_, _, _, _, _)
aliasScores(docs, kept, scored, i, k) ==
  IF i > Len(docs) THEN <<>>
  ELSE IF i \in kept
  THEN << scored[k] >> \o aliasScores(docs, kept, scored, i + 1, k + 1)
  ELSE << docs[i] >> \o aliasScores(docs, kept, scored, i + 1, k)

\* the positions of docs the filter keeps
keptPositions(docs, allowed, loc, strict) ==
  { i \in DOMAIN docs : keepDoc(docs[i], allowed, loc, strict) }

\* Array.prototype.filter: the elements satisfying the predicate, in order
filterDocs(docs, allowed, loc, strict) ==
  With(keptPositions(docs, allowed, loc, strict), LAMBDA kept : pick(docs, kept, 1))

\* the first position at or after i that holds no white space
RECURSIVE skipSpaces(_, _)
skipSpaces(s, i) == IF i <= Len(s) /\ IsSpace(s[i]) THEN skipSpaces(s, i + 1) ELSE i

\* /do\s*not\s*drink/ somewhere in s
matchesDoNotDrink(s) ==
  \E i \in 1..Len(s) :
    /\ matchAt(s, <<"d","o">>, i)
    /\ With(skipSpaces(s, i + 2), LAMBDA j :
         /\ matchAt(s, <<"n","o","t">>, j)
         /\ matchAt(s, <<"d","r","i","n","k">>, skipSpaces(s, j + 3)))

\* /(boil|do\s*not\s*drink|advisory|notice)/i
matchesSafety(s) ==
  With(toLowerCase(s), LAMBDA t :
    \/ includes(t, <<"b","o","i","l">>) \/ matchesDoNotDrink(t)
    \/ includes(t, <<"a","d","v","i","s","o","r","y">>) \/ includes(t, <<"n","o","t","i","c","e">>))

\* /(pws(a)?|pgh2o|austin water|dep|deq|ddw)/i
matchesJargon(s) ==
  With(toLowerCase(s), LAMBDA t :
    \/ includes(t, <<"p","w","s">>) \/ includes(t, <<"p","g","h","2","o">>) \/ includes(t, <<"a","u","s","t","i","n"," ","w","a","t","e","r">>)
    \/ includes(t, <<"d","e","p">>) \/ includes(t, <<"d","e","q">>) \/ includes(t, <<"d","d","w">>))

\* variant: the age limits are inclusive
recency_inclusive(d, now) ==
  IF d.publishedAt # <<>>
  THEN LET ageDays == now - getTime(d.publishedAt[1])
       IN IF ageDays <= RecentDays THEN 2 ELSE IF ageDays <= YearDays THEN 1 ELSE 0
  ELSE 0

\* variant: a date after now counts as no date
recency_futureIsNone(d, now) ==
  IF d.publishedAt # <<>>
  THEN LET ageDays == now - getTime(d.publishedAt[1])
       IN IF ageDays < 0 THEN 0
          ELSE IF ageDays < RecentDays THEN 2 ELSE IF ageDays < YearDays THEN 1 ELSE 0
  ELSE 0

\* the recency term of score; ages are in days
recency(d, now) ==
  IF d.publishedAt # <<>>
  THEN LET ageDays == now - getTime(d.publishedAt[1])
       IN IF ageDays < RecentDays THEN 2 ELSE IF ageDays < YearDays THEN 1 ELSE 0
  ELSE 0

\* variant: the local term tests the base allow-list a second time, for 4
score_localTermOnBase(d, localDomains, loc, now) ==
  (IF hostMatchesAllowed(d.url, baseAllow) THEN 3 ELSE 0)
  + (IF hostMatchesAllowed(d.url, baseAllow) THEN 4 ELSE 0)
  + (IF strongLocationMatch(d.title, d.text, loc) THEN 2 ELSE 0)
  + (IF matchesSafety(d.text \o <<" ">> \o d.title) THEN 2 ELSE 0)
  + (IF matchesJargon(d.text \o <<" ">> \o d.title) THEN 1 ELSE 0)
  + recency(d, now)

\* the inner function score of fetchAuthoritative
score(d, localDomains, loc, now) ==
  (IF hostMatchesAllowed(d.url, baseAllow) THEN 3 ELSE 0)
  + (IF hostMatchesAllowed(d.url, localDomains) THEN 4 ELSE 0)
  + (IF strongLocationMatch(d.title, d.text, loc) THEN 2 ELSE 0)
  + (IF matchesSafety(d.text \o <<" ">> \o d.title) THEN 2 ELSE 0)
  + (IF matchesJargon(d.text \o <<" ">> \o d.title) THEN 1 ELSE 0)
  + recency(d, now)

\* variant: the scorer lower-cases the text of the document it scores
assignScores_lowerCasesText(docs, localDomains, loc, now) ==
  [i \in DOMAIN docs |-> [docs[i] EXCEPT !.score = << score(docs[i], localDomains, loc, now) >>,
                                        !.text = toLowerCase(docs[i].text)]]

\* filtered.forEach(d => d.score = score(d))
assignScores(docs, localDomains, loc, now) ==
  [i \in DOMAIN docs |-> [docs[i] EXCEPT !.score = << score(docs[i], localDomains, loc, now) >>]]

\* (b.score||0) - (a.score||0)
scoreOr0(d) == IF d.score # <<>> THEN d.score[1] ELSE 0
compareDocs(a, b) == scoreOr0(b) - scoreOr0(a)

\* variant: an unstable sort, an element goes before its equals
insertSorted_beforeEquals(sorted, x) ==
  With(sorted, LAMBDA acc :
    With({ j \in DOMAIN acc : compareDocs(acc[j], x) >= 0 }, LAMBDA later :
      With(IF later = {} THEN Len(acc) + 1 ELSE minOf(later), LAMBDA pos :
        SubSeq(acc, 1, pos - 1) \o << x >> \o SubSeq(acc, pos, Len(acc)))))

\* Array.prototype.sort is stable: an element goes after every element that
\* does not compare greater than it
insertSorted(sorted, x) ==
  With(sorted, LAMBDA acc :
    With({ j \in DOMAIN acc : compareDocs(acc[j], x) > 0 }, LAMBDA later :
      With(IF later = {} THEN Len(acc) + 1 ELSE minOf(later), LAMBDA pos :
        SubSeq(acc, 1, pos - 1) \o << x >> \o SubSeq(acc, pos, Len(acc)))))

RECURSIVE sortFrom(_, _, _)
sortFrom(docs, acc, i) ==
  IF i > Len(docs) THEN acc ELSE sortFrom(docs, insertSorted(acc, docs[i]), i + 1)

sortDocs(docs) == With(docs, LAMBDA ds : sortFrom(ds, <<>>, 1))

\* variant: the slice ends one element later
topDocs_sliceSeven(sorted) == SubSeq(sorted, 1, Min(TopN + 1, Len(sorted)))

\* filtered.slice(0, 6)
topDocs(sorted) == SubSeq(sorted, 1, Min(TopN, Len(sorted)))

----------------------------------------------------------------------------
(* The state of the other components.  The page loop of parsePdf, the      *)
(* location resolver, handleQuery and the stream route are each followed   *)
(* step by step under a specification of their own; the retriever run      *)
(* above them leaves their state alone.                                    *)

VARIABLES
  pdfPc,         \* where parsePdf is: idle, loop, joined, done
  pdfNumPages,   \* pdf.numPages
  pdfPage,       \* p, the page the loop is at
  pdfPagesRead,  \* the arguments of the getPage calls so far
  pdfChunks,     \* textChunks, each chunk given by its length
  pdfTextLen     \* the length of text, <<>> before it is computed

VARIABLES
  resolverPc,        \* where the resolver is: idle, derived, seeded
  resolverLocation,  \* the location argument
  resolverState,     \* what inferStateCode returned, <<>> for null
  resolverDomains,   \* what deriveLocalDomains returned
  resolverSeeds      \* what curatedSeeds returned

VARIABLES
  ckPc,       \* where the chunking is: idle, streaming, done
  ckText,     \* the answer text
  ckMax,      \* the chunk size
  ckParts,    \* what chunkByWords returned
  ckSent,     \* how many chunks were sent as delta events
  ckContent   \* the content the client has put together

VARIABLES
  route,            \* the route of the request: query (POST) or stream (GET)
  reqQuestion,      \* the content of the user message
  reqLocation,      \* the location of the request, <<>> for null
  rtPc,             \* where the route handler is
  hqPc,             \* where handleQuery is
  hqDocs,           \* docs, what fetchAuthoritative returned
  hqBuilt,          \* the response object handleQuery has built, <<>> before
  hqOutcome,        \* how handleQuery settled, <<>> while it is pending
  cancelled,        \* the flag of the stream handler
  closeListener,    \* whether onClose is registered on the request
  clientClosed,     \* whether the close event has fired
  events,           \* the SSE events sent so far
  sentBeforeClose,  \* how many events were sent when close fired, <<>> before
  stChunks,         \* chunks
  stNext,           \* the chunk the delta loop is at
  postReply         \* the reply of the query route, <<>> before

pdfVars == << pdfPc, pdfNumPages, pdfPage, pdfPagesRead, pdfChunks, pdfTextLen >>

PdfIdle ==
  /\ pdfPc = "idle"
  /\ pdfNumPages = 0
  /\ pdfPage = 1
  /\ pdfPagesRead = <<>>
  /\ pdfChunks = <<>>
  /\ pdfTextLen = <<>>

resolverVars == << resolverPc, resolverLocation, resolverState, resolverDomains, resolverSeeds >>

ResolverIdle ==
  /\ resolverPc = "idle"
  /\ resolverLocation = <<>>
  /\ resolverState = <<>>
  /\ resolverDomains = <<>>
  /\ resolverSeeds = <<>>

chunkVars == << ckPc, ckText, ckMax, ckParts, ckSent, ckContent >>

ChunkIdle ==
  /\ ckPc = "idle"
  /\ ckText = <<>>
  /\ ckMax = 1
  /\ ckParts = <<>>
  /\ ckSent = 0
  /\ ckContent = <<>>

requestVars == << route, reqQuestion, reqLocation >>

queryVars == << hqPc, hqDocs, hqBuilt, hqOutcome >>

streamVars == << cancelled, closeListener, clientClosed, events, sentBeforeClose, stChunks, stNext >>

handlerVars == << requestVars, rtPc, queryVars, streamVars, postReply >>

HandlerIdle ==
  /\ route = "query"
  /\ reqQuestion = <<>>
  /\ reqLocation = <<>>
  /\ rtPc = "idle"
  /\ hqPc = "idle"
  /\ hqDocs = <<>>
  /\ hqBuilt = <<>>
  /\ hqOutcome = <<>>
  /\ cancelled = FALSE
  /\ closeListener = FALSE
  /\ clientClosed = FALSE
  /\ events = <<>>
  /\ sentBeforeClose = <<>>
  /\ stChunks = <<>>
  /\ stNext = 1
  /\ postReply = <<>>

others == << pdfVars, resolverVars, chunkVars, handlerVars >>

OthersIdle == PdfIdle /\ ResolverIdle /\ ChunkIdle /\ HandlerIdle

----------------------------------------------------------------------------
(* The inputs of a run: the locations asked about, what the web serves     *)
(* for each URL, and what the search provider answers.                     *)

Locations == { <<"A","u","s","t","i","n",","," ","T","X">>, <<"A","u","s","t","i","n",","," ","T","X"," ","7","8","7","0","1",","," ","U","S","A">>, <<"P","i","t","t","s","b","u","r","g","h",","," ","P","A">>, <<"N","o","w","h","e","r","e",","," ","Z","Z">>, <<"F","l","i","n","t">>, <<>> }

DateStr(day) == [parses |-> TRUE, day |-> day]
BadDate == [parses |-> FALSE, day |-> 0]
NoMeta == << <<>>, <<>>, <<>>, <<>> >>

\* bytes that are an HTML page
Html(titleTag, mainText, articleText, bodyText, metaDates, timeText) ==
  [ titleTag |-> titleTag, mainText |-> mainText, articleText |-> articleText,
    bodyText |-> bodyText, metaDates |-> metaDates, timeText |-> timeText,
    pdfLoads |-> FALSE, pages |-> <<>>, pdfDate |-> <<>> ]

\* bytes that are a PDF file: pages of text items
Pdf(pages, pdfDate) ==
  [ titleTag |-> <<>>, mainText |-> <<>>, articleText |-> <<>>,
    bodyText |-> <<"%","P","D","F","-","1",".","7">>, metaDates |-> NoMeta, timeText |-> <<>>,
    pdfLoads |-> TRUE, pages |-> pages, pdfDate |-> pdfDate ]

\* bytes that are neither
Garbage == Html(<<>>, <<>>, <<>>, <<>>, NoMeta, <<>>)

Resp(status, ct, lastMod, body) ==
  [ net |-> "ok", status |-> status, ct |-> ct, lastMod |-> lastMod, body |-> body ]
NetError == [ net |-> "error", status |-> 0, ct |-> <<>>, lastMod |-> <<>>, body |-> Garbage ]
Hang == [ net |-> "hang", status |-> 0, ct |-> <<>>, lastMod |-> <<>>, body |-> Garbage ]
NotFound == Resp(404, <<"t","e","x","t","/","h","t","m","l">>, <<>>, Html(<<"N","o","t"," ","F","o","u","n","d">>, <<>>, <<>>, <<"n","o","t"," ","f","o","u","n","d">>, NoMeta, <<>>))
ServerError == Resp(500, <<"t","e","x","t","/","h","t","m","l">>, <<>>, Garbage)

HtmlCT == <<"t","e","x","t","/","h","t","m","l",";"," ","c","h","a","r","s","e","t","=","u","t","f","-","8">>

GenericPage(lastMod, metaDates) ==
  Resp(200, HtmlCT, lastMod,
       Html(<<"G","r","o","u","n","d"," ","W","a","t","e","r"," ","a","n","d"," ","D","r","i","n","k","i","n","g"," ","W","a","t","e","r">>, <<>>, <<>>, <<"a","n","n","u","a","l"," "," ","w","a","t","e","r","\n"," ","r","e","p","o","r","t">>, metaDates, <<>>))

AustinPage(lastMod, timeText) ==
  Resp(200, HtmlCT, lastMod,
       Html(<<"A","u","s","t","i","n"," ","W","a","t","e","r"," ","Q","u","a","l","i","t","y"," ","R","e","p","o","r","t"," ","2","0","2","4">>, <<" ","A","u","s","t","i","n"," ","T","e","x","a","s"," ","t","a","p"," ","w","a","t","e","r"," ">>, <<>>,
            <<"m","e","n","u">>, NoMeta, timeText))

\* documents found by the search provider
AUSTIN_REPORT == Url(<<"A","u","s","t","i","n","T","e","x","a","s",".","G","O","V">>, "/waterreport")
BLOG == Url(<<"b","l","o","g",".","e","x","a","m","p","l","e",".","c","o","m">>, "/austin-water")
NOT_EPA == Url(<<"n","o","t","e","p","a",".","g","o","v">>, "/ccr")
WHO == Url(<<"w","h","o",".","i","n","t">>, "/water")
FLINT == Url(<<"w","w","w",".","c","i","t","y","o","f","f","l","i","n","t",".","c","o","m">>, "/water")
CDC_OTHER == Url(<<"w","w","w",".","c","d","c",".","g","o","v">>, "/other")
EPA_SDWA == Url(<<"w","w","w",".","e","p","a",".","g","o","v">>, "/sdwa")

\* the responses a fetch of the URL can get
Web(u) ==
  CASE u = EPA_CCR ->
         { NotFound, GenericPage(<<>>, NoMeta) }
    [] u = CDC_ADV ->
         { NetError, Hang,
           Resp(200, HtmlCT, << DateStr(Now - 300) >>,
                Html(<<"D","r","i","n","k","i","n","g"," ","W","a","t","e","r"," ","A","d","v","i","s","o","r","i","e","s">>, <<>>, <<"B","o","i","l"," ","w","a","t","e","r"," "," ","a","d","v","i","s","o","r","y"," ","b","a","s","i","c","s">>, <<>>,
                     << <<>>, << BadDate >>, << DateStr(Now - 10) >>, <<>> >>, <<>>)) }
    [] u = TX_TCEQ ->
         { Resp(200, <<"i","m","a","g","e","/","p","n","g">>, <<>>, Garbage),
           Resp(200, <<"a","p","p","l","i","c","a","t","i","o","n","/","p","d","f">>, << DateStr(Now - 10) >>,
                Pdf(<< << <<"T","e","x","a","s">>, <<"D","E","Q">> >>, << <<"D","o"," "," ","n","o","t">>, <<"d","r","i","n","k">> >> >>,
                    << DateStr(Now - 365) >>)) }
    [] u = AUSTIN_WATER ->
         { AustinPage(<< BadDate >>, <<>>),
           AustinPage(<<>>, << DateStr(Now - 59) >>),
           AustinPage(<<>>, <<>>),
           Resp(200, <<"a","p","p","l","i","c","a","t","i","o","n","/","p","d","f">>, <<>>, Garbage) }
    [] u = MI_EGLE ->
         { ServerError,
           Resp(200, HtmlCT, <<>>,
                Html(<<"E","G","L","E">>, <<>>, <<>>, <<"F","l","i","n","t"," ","w","a","t","e","r"," ","n","o","t","i","c","e">>,
                     << <<>>, << DateStr(Now - 60) >>, <<>>, <<>> >>, <<>>)) }
    [] u = AUSTIN_REPORT ->
         { NetError,
           Resp(200, <<"t","e","x","t","/","p","l","a","i","n">>, <<>>,
                Html(<<>>, <<>>, <<>>, <<"A","U","S","T","I","N"," ","W","A","T","E","R"," ","p","w","s","a">>, NoMeta, << BadDate >>)) }
    [] u = BLOG ->
         { Resp(200, HtmlCT, <<>>,
                Html(<<"A","u","s","t","i","n"," ","b","o","i","l"," ","w","a","t","e","r"," ","n","o","t","i","c","e">>, <<>>, <<>>, <<"w","h","a","t"," ","t","o"," ","d","o"," ","i","n"," ","a","u","s","t","i","n">>,
                     << << DateStr(Now - 10) >>, <<>>, <<>>, <<>> >>, <<>>)) }
    [] u = NOT_EPA ->
         { GenericPage(<<>>, NoMeta) }
    [] u = WHO ->
         { GenericPage(<< DateStr(Now - 1000) >>, NoMeta) }
    [] u = FLINT ->
         { Resp(200, HtmlCT, << BadDate >>,
                Html(<<"C","i","t","y"," ","o","f"," ","F","l","i","n","t">>, <<"D","o"," ","n","o","t","	","d","r","i","n","k">>, <<>>, <<>>,
                     << <<>>, <<>>, <<>>, << DateStr(Now - 364) >> >>, <<>>)) }
    [] u = CDC_OTHER ->
         { GenericPage(<< DateStr(Now + 10) >>, NoMeta) }
    [] u = EPA_SDWA ->
         { GenericPage(<< DateStr(Now - 364) >>, NoMeta),
           GenericPage(<<>>, << <<>>, <<>>, <<>>, << DateStr(Now - 900) >> >>),
           Resp(200, HtmlCT, <<>>,
                Html(<<"P","u","b","l","i","c"," ","N","o","t","i","f","i","c","a","t","i","o","n"," ","R","u","l","e">>, <<>>, <<"T","i","e","r"," ","1"," ","n","o","t","i","c","e",":"," ","b","o","i","l"," ","w","a","t","e","r"," ","a","d","v","i","s","o","r","y",","," ","s","e","n","t"," ","t","o"," ","t","h","e"," ","s","t","a","t","e"," ","D","E","P">>,
                     <<>>, << << DateStr(Now - 5) >>, <<>>, <<>>, <<>> >>, <<>>)) }
    [] u = PGH2O ->
         { Resp(200, HtmlCT, <<>>,
                Html(<<"W","a","t","e","r"," ","Q","u","a","l","i","t","y"," ","|"," ","P","G","H","2","O">>, <<>>, <<>>, <<"P","i","t","t","s","b","u","r","g","h"," ","W","a","t","e","r",":"," ","b","o","i","l"," ","w","a","t","e","r"," ","a","d","v","i","s","o","r","y">>,
                     << << DateStr(Now - 5) >>, <<>>, <<>>, <<>> >>, <<>>)) }
    [] u = ALLEGHENY ->
         { Resp(200, HtmlCT, <<>>,
                Html(<<"H","e","a","l","t","h"," ","D","e","p","a","r","t","m","e","n","t">>, <<>>, <<>>, <<"A","l","l","e","g","h","e","n","y"," ","C","o","u","n","t","y">>, NoMeta, <<>>)) }
    [] u = PA_DEP ->
         { GenericPage(<<>>, NoMeta) }
    [] OTHER ->
         { NotFound, GenericPage(<<>>, NoMeta) }

\* the result lists the search provider can answer with
ResultListA == << AUSTIN_REPORT, EPA_CCR, BLOG, WHO >>
ResultListB == << NOT_EPA, CDC_OTHER, EPA_SDWA, FLINT >>
cut(list) == SubSeq(list, 1, Min(MaxResults, Len(list)))

SearchResp(status, jsonOk, isArray, results) ==
  [ net |-> "ok", status |-> status, jsonOk |-> jsonOk, isArray |-> isArray, results |-> results ]

SearchResponses ==
  { [ net |-> "error", status |-> 0, jsonOk |-> FALSE, isArray |-> FALSE, results |-> <<>> ],
    SearchResp(500, TRUE, FALSE, <<>>),
    SearchResp(200, FALSE, FALSE, <<>>),
    SearchResp(200, TRUE, FALSE, <<>>),
    SearchResp(200, TRUE, TRUE, cut(ResultListA)),
    SearchResp(200, TRUE, TRUE, cut(ResultListB)) }

----------------------------------------------------------------------------
(* The state of one call of fetchAuthoritative.                            *)

VARIABLES
  location,        \* the location argument
  envStrictLocal,  \* process.env.RETRIEVER_STRICT_LOCAL, <<>> when unset
  searchProvider,  \* process.env.SEARCH_PROVIDER
  apiKey,          \* process.env.TAVILY_API_KEY, <<>> when unset
  localAllow,      \* the location-derived domains
  allow,           \* baseAllow united with localAllow
  pc,              \* where the call is: start, search, fetch, blocked, returned, rejected
  queryIdx,        \* the query the search loop is at
  seeds,           \* the seed Set, in insertion order
  seedIdx,         \* the seed the fetch loop is at
  responses,       \* what each fetch so far got, in seed order
  searchRequests,  \* how many search requests were issued
  rawDocs,         \* the documents pushed by the fetch loop
  filtered,        \* the array filtered as the filter leaves it
  ranked,          \* the same array after scoring and the in-place sort
  result           \* the returned list

retrieverVars == << location, envStrictLocal, searchProvider, apiKey, localAllow, allow, pc, queryIdx, seeds, seedIdx,
           responses, searchRequests, rawDocs, filtered, ranked, result >>

vars == << retrieverVars, others >>

env == << location, envStrictLocal, searchProvider, apiKey >>

RETRIEVER_STRICT_LOCAL == envStrictLocal # << "0" >>

Init ==
  /\ location \in Locations
  /\ envStrictLocal \in { <<>>, << "0" >>, << "1" >> }
  /\ searchProvider \in { "tavily", "" }
  /\ apiKey \in { <<>>, << "tvly-key" >> }
  /\ localAllow = <<>>
  /\ allow = <<>>
  /\ pc = "start"
  /\ queryIdx = 1
  /\ seeds = <<>>
  /\ seedIdx = 1
  /\ responses = <<>>
  /\ searchRequests = 0
  /\ rawDocs = <<>>
  /\ filtered = <<>>
  /\ ranked = <<>>
  /\ result = <<>>
  /\ OthersIdle

\* the allow-lists, the queries and the seed Set are built; the search loop
\* is entered only when the provider is configured
Begin ==
  /\ pc = "start"
  /\ localAllow' = deriveLocalDomains(location)
  /\ allow' = allowOf(localAllow')
  /\ seeds' = initialSeeds(location)
  /\ pc' = IF searchEnabled(searchProvider, apiKey) THEN "search" ELSE "fetch"
  /\ UNCHANGED << env, queryIdx, seedIdx, responses, searchRequests, rawDocs,
                  filtered, ranked, result >>
  /\ UNCHANGED others

\* one iteration of the search loop: tavilySearch resolves and its results
\* are added to the seeds
SearchReturns ==
  /\ pc = "search"
  /\ \E sr \in SearchResponses :
       /\ ~tavilySearchThrows(sr)
       /\ seeds' = setAddAll(seeds, tavilySearch(sr))
  /\ searchRequests' = searchRequests + 1
  /\ queryIdx' = queryIdx + 1
  /\ pc' = IF queryIdx = NumQueries THEN "fetch" ELSE "search"
  /\ UNCHANGED << env, localAllow, allow, seedIdx, responses, rawDocs, filtered, ranked, result >>
  /\ UNCHANGED others

\* tavilySearch rejects: nothing in fetchAuthoritative catches it
SearchThrows ==
  /\ pc = "search"
  /\ \E sr \in SearchResponses : tavilySearchThrows(sr)
  /\ searchRequests' = searchRequests + 1
  /\ pc' = "rejected"
  /\ UNCHANGED << env, localAllow, allow, queryIdx, seeds, seedIdx, responses, rawDocs, filtered, ranked, result >>
  /\ UNCHANGED others

\* variant: a failed fetch ends the loop over the seeds
FetchSettles_abortsBatch ==
  /\ pc = "fetch"
  /\ seedIdx <= Len(seeds)
  /\ \E resp \in Web(seeds[seedIdx]) :
       /\ resp.net # "hang"
       /\ rawDocs' = rawDocs \o fetchAndParse(seeds[seedIdx], resp)
       /\ responses' = Append(responses, resp)
       /\ seedIdx' = IF fetchAndParse(seeds[seedIdx], resp) = <<>> THEN Len(seeds) + 1 ELSE seedIdx + 1
  /\ UNCHANGED << env, localAllow, allow, pc, queryIdx, seeds, searchRequests, filtered, ranked, result >>
  /\ UNCHANGED others

\* one iteration of the fetch loop whose fetch settles
FetchSettles ==
  /\ pc = "fetch"
  /\ seedIdx <= Len(seeds)
  /\ \E resp \in Web(seeds[seedIdx]) :
       /\ resp.net # "hang"
       /\ rawDocs' = rawDocs \o fetchAndParse(seeds[seedIdx], resp)
       /\ responses' = Append(responses, resp)
  /\ seedIdx' = seedIdx + 1
  /\ UNCHANGED << env, localAllow, allow, pc, queryIdx, seeds, searchRequests, filtered, ranked, result >>
  /\ UNCHANGED others

\* the fetch of the seed never settles: fetchBuffer sets no timeout, so the
\* await in the loop never resumes
FetchHangs ==
  /\ pc = "fetch"
  /\ seedIdx <= Len(seeds)
  /\ \E resp \in Web(seeds[seedIdx]) :
       /\ resp.net = "hang"
       /\ responses' = Append(responses, resp)
  /\ pc' = "blocked"
  /\ UNCHANGED << env, localAllow, allow, queryIdx, seeds, seedIdx, searchRequests, rawDocs, filtered, ranked, result >>
  /\ UNCHANGED others

\* after the last fetch: filter, score, sort, slice and return
Rank ==
  /\ pc = "fetch"
  /\ seedIdx > Len(seeds)
  /\ filtered' = filterDocs(rawDocs, allow, location, RETRIEVER_STRICT_LOCAL)
  /\ \E scored \in { assignScores(filtered', localAllow, location, Now) } :
       /\ ranked' = sortDocs(scored)
       /\ rawDocs' = aliasScores(rawDocs, keptPositions(rawDocs, allow, location, RETRIEVER_STRICT_LOCAL),
                                 scored, 1, 1)
  /\ result' = topDocs(ranked')
  /\ pc' = "returned"
  /\ UNCHANGED << env, localAllow, allow, queryIdx, seeds, seedIdx, responses, searchRequests >>
  /\ UNCHANGED others

Next ==
  \/ Begin
  \/ SearchReturns
  \/ SearchThrows
  \/ FetchSettles
  \/ FetchHangs
  \/ Rank

Spec == Init /\ [][Next]_vars

\* the retriever before any call, for the specifications of the other
\* components
RetrieverIdle ==
  /\ location = <<>>
  /\ envStrictLocal = <<>>
  /\ searchProvider = ""
  /\ apiKey = <<>>
  /\ localAllow = <<>>
  /\ allow = <<>>
  /\ pc = "start"
  /\ queryIdx = 1
  /\ seeds = <<>>
  /\ seedIdx = 1
  /\ responses = <<>>
  /\ searchRequests = 0
  /\ rawDocs = <<>>
  /\ filtered = <<>>
  /\ ranked = <<>>
  /\ result = <<>>

----------------------------------------------------------------------------
(* Vocabulary of the properties.                                           *)

Returned == pc = "returned"

\* the hostname h is the domain d or a subdomain of it
IsHostUnder(h, d) ==
  \/ h = d
  \/ /\ Len(h) > Len(d) + 1
     /\ h[Len(h) - Len(d)] = "."
     /\ SubSeq(h, Len(h) - Len(d) + 1, Len(h)) = d

FederalDomains == { <<"e","p","a",".","g","o","v">>, <<"c","d","c",".","g","o","v">> }
LocationDomains == Range(localAllow)

HostOf(d) == toLowerCase(d.url.host)
OnFederalHost(d) == \E dom \in FederalDomains : IsHostUnder(HostOf(d), dom)
OnLocationHost(d) == \E dom \in LocationDomains : IsHostUnder(HostOf(d), dom)
OnAllowListedHost(d) == OnFederalHost(d) \/ OnLocationHost(d)
MentionsLocation(d) == strongLocationMatch(d.title, d.text, location)

Unscored(d) == [d EXCEPT !.score = <<>>]
Urls(docs) == { docs[i].url : i \in DOMAIN docs }
SeedPos(u) == CHOOSE i \in DOMAIN seeds : seeds[i] = u

\* the failures of one fetch: a rejected fetch, a non-2xx status, a PDF that
\* does not load, a content type that is neither PDF nor HTML/text
IsPdfType(resp) == includes(resp.ct, <<"p","d","f">>)
IsHtmlType(resp) == ~IsPdfType(resp) /\ (includes(resp.ct, <<"h","t","m","l">>) \/ includes(resp.ct, <<"t","e","x","t">>))
FetchFailed(resp) ==
  \/ resp.net = "error"
  \/ resp.status < 200 \/ resp.status > 299
  \/ (IsPdfType(resp) /\ ~resp.body.pdfLoads)
  \/ (~IsPdfType(resp) /\ ~IsHtmlType(resp))

----------------------------------------------------------------------------
C2_LooseKeepsHostOrLocation ==
  (Returned /\ ~RETRIEVER_STRICT_LOCAL) =>
    /\ filtered = SelectSeq([i \in DOMAIN rawDocs |-> Unscored(rawDocs[i])],
                            LAMBDA d : OnAllowListedHost(d) \/ MentionsLocation(d))
    /\ \A i \in DOMAIN result : OnAllowListedHost(result[i]) \/ MentionsLocation(result[i])

\* a loose run returned a document kept for its location match alone and
\* dropped one that failed both tests
C2_Witness ==
  /\ Returned /\ ~RETRIEVER_STRICT_LOCAL
  /\ \E i \in DOMAIN result : ~OnAllowListedHost(result[i]) /\ MentionsLocation(result[i])
  /\ \E i \in DOMAIN rawDocs :
       /\ ~OnAllowListedHost(rawDocs[i]) /\ ~MentionsLocation(rawDocs[i])
       /\ rawDocs[i].url \notin Urls(filtered)

(* C3: the returned list never has more than 6 documents, and when fewer   *)
(* than 6 survive the filter all of them are returned.                     *)
C3_AtMostSixAndAllWhenFewer ==
  Returned =>
    /\ Len(result) <= 6
    /\ Len(filtered) < 6 =>
         /\ Len(result) = Len(filtered)
         /\ { Unscored(result[i]) : i \in DOMAIN result } = Range(filtered)

\* more than 6 documents survived the filter and 6 were returned
C3_Witness == Returned /\ Len(filtered) > 6 /\ Len(result) = 6

(* C4: the returned list is ordered by score descending, documents of      *)
(* equal score in the order their seeds were added and fetched; the kept   *)
(* documents are the first 6 of that ordering of the survivors, so no      *)
(* dropped document scores higher than a kept one.                         *)
C4_RankedByScoreStable ==
  Returned =>
    /\ \A i, j \in DOMAIN ranked : i < j =>
         \/ ranked[i].score[1] > ranked[j].score[1]
         \/ /\ ranked[i].score[1] = ranked[j].score[1]
            /\ SeedPos(ranked[i].url) < SeedPos(ranked[j].url)
    /\ Urls(ranked) = Urls(filtered) /\ Len(ranked) = Len(filtered)
    /\ result = SubSeq(ranked, 1, IF Len(ranked) < 6 THEN Len(ranked) ELSE 6)
    /\ \A k \in DOMAIN result : \A j \in DOMAIN ranked :
         ranked[j].url \notin Urls(result) => ranked[j].score[1] <= result[k].score[1]

\* more than 6 survivors, a tie inside the returned list, a tie across the
\* cut, and a sort that moved a later seed's document ahead of an earlier
C4_Witness ==
  /\ Returned /\ Len(ranked) > 6
  /\ \E i \in DOMAIN result : i < 6 /\ result[i].score = result[i + 1].score
  /\ ranked[6].score = ranked[7].score
  /\ \E i, j \in DOMAIN result : i < j /\ SeedPos(result[i].url) > SeedPos(result[j].url)

(* C5: a failed fetch or parse of one seed URL yields no document for that *)
(* URL only: every seed of the run is still fetched, in order, and each    *)
(* fetch that yields a document has it in the collected list.              *)
C5_FailureIsPerUrl ==
  Returned =>
    /\ Len(responses) = Len(seeds)
    /\ \A i \in DOMAIN responses :
         /\ FetchFailed(responses[i]) => seeds[i] \notin Urls(rawDocs)
         /\ fetchAndParse(seeds[i], responses[i]) # <<>> => seeds[i] \in Urls(rawDocs)
    /\ Urls(rawDocs) \subseteq { seeds[i] : i \in DOMAIN responses }

\* a returned run in which fetches of each kind failed and a later seed
\* still produced its document
C5_Witness ==
  /\ Returned
  /\ \E i, j, k, l, m \in DOMAIN responses :
       /\ responses[i].net = "error"
       /\ responses[j].net = "ok" /\ responses[j].status = 404
       /\ responses[k].net = "ok" /\ responses[k].status = 200
            /\ IsPdfType(responses[k]) /\ ~responses[k].body.pdfLoads
       /\ responses[l].net = "ok" /\ responses[l].status = 200
            /\ ~IsPdfType(responses[l]) /\ ~IsHtmlType(responses[l])
       /\ m > i /\ m > j /\ m > k /\ m > l
       /\ seeds[m] \in Urls(result)

(* C6: fetchAuthoritative never rejects; a failed search query counts as   *)
(* zero results and the run goes on.                                       *)
C6_SearchFailureNeverRaised == pc # "rejected"

(* C7: a fetch that never responds is cut off by its own timeout, so the   *)
(* run is never left waiting on it: whenever the call has not settled,     *)
(* some step of it can still be taken.                                     *)
C7_UnresponsiveFetchTimesOut ==
  pc \notin { "returned", "rejected" } => ENABLED Next

(* C8: when every seed fetch fails the call returns the empty list; for    *)
(* "Nowhere, ZZ" without a configured search the seeds are exactly the two *)
(* federal URLs.                                                           *)
C8_AllFetchesFailGivesEmpty ==
  /\ (pc \in { "returned", "blocked" } \/ (pc = "fetch" /\ seedIdx > Len(seeds)))
       /\ (\A i \in DOMAIN responses : FetchFailed(responses[i]))
       /\ Len(responses) = Len(seeds)
     => (rawDocs = <<>> /\ (Returned => result = <<>>))
  /\ (location = <<"N","o","w","h","e","r","e",","," ","Z","Z">> /\ ~(searchProvider = "tavily" /\ apiKey # <<>>) /\ pc # "start")
     => seeds = << EPA_CCR, CDC_ADV >>

\* "Nowhere, ZZ", no search, both federal fetches failed, [] returned
C8_Witness ==
  /\ Returned /\ location = <<"N","o","w","h","e","r","e",","," ","Z","Z">> /\ searchProvider # "tavily"
  /\ Len(responses) = 2 /\ FetchFailed(responses[1]) /\ FetchFailed(responses[2])
  /\ result = <<>>

(* C9: a date that cannot be parsed never makes the fetch fail: a response *)
(* that is otherwise fine (2xx, a supported type, a loadable body) yields  *)
(* its document, and when none of its date sources parses (a present       *)
(* Last-Modified value included) the document has no publishedAt.          *)
HasParseableDate(resp) ==
  \/ (resp.lastMod # <<>> /\ resp.lastMod[1].parses)
  \/ IF IsPdfType(resp)
     THEN resp.body.pdfDate # <<>> /\ resp.body.pdfDate[1].parses
     ELSE \/ \E k \in DOMAIN resp.body.metaDates :
               resp.body.metaDates[k] # <<>> /\ resp.body.metaDates[k][1].parses
          \/ (resp.body.timeText # <<>> /\ resp.body.timeText[1].parses)

C9_UnparseableDateGivesNoDate ==
  \A i \in DOMAIN responses :
    (responses[i].net = "ok" /\ ~FetchFailed(responses[i])) =>
      \E k \in DOMAIN rawDocs :
        /\ rawDocs[k].url = seeds[i]
        /\ ~HasParseableDate(responses[i]) => rawDocs[k].publishedAt = <<>>

(* C10: the score of a document is the sum of 3 for a federal allow-listed *)
(* host, 4 for a location-derived host, 2 for a strong location match, 2   *)
(* for the safety keywords, 1 for the utility jargon, and for recency 2    *)
(* under 60 days of age, 1 under 365, 0 otherwise or with no date.         *)
AgeDays(d) == Now - d.publishedAt[1].iso
RecencyTerm(d) ==
  IF d.publishedAt = <<>> THEN 0
  ELSE IF AgeDays(d) < 60 THEN 2
  ELSE IF AgeDays(d) < 365 THEN 1
  ELSE 0
TitleAndText(d) == d.text \o <<" ">> \o d.title
ScoreSum(d) ==
  (IF OnFederalHost(d) THEN 3 ELSE 0)
  + (IF OnLocationHost(d) THEN 4 ELSE 0)
  + (IF MentionsLocation(d) THEN 2 ELSE 0)
  + (IF matchesSafety(TitleAndText(d)) THEN 2 ELSE 0)
  + (IF matchesJargon(TitleAndText(d)) THEN 1 ELSE 0)
  + RecencyTerm(d)

C10_ScoreIsSumOfWeights ==
  Returned =>
    \A i \in DOMAIN ranked : ranked[i].score = << ScoreSum(ranked[i]) >>

\* one run scored documents with each recency term, at the ages 59, 60,
\* 364 and 365 days, and a document with no date
C10_Witness ==
  /\ Returned
  /\ \E a, b, c, e \in DOMAIN ranked :
       /\ ranked[a].publishedAt # <<>> /\ AgeDays(ranked[a]) = 59
       /\ ranked[b].publishedAt # <<>> /\ AgeDays(ranked[b]) = 364
       /\ ranked[c].publishedAt # <<>> /\ AgeDays(ranked[c]) = 365
       /\ ranked[e].publishedAt = <<>>
       /\ OnLocationHost(ranked[a]) /\ OnFederalHost(ranked[b])

----------------------------------------------------------------------------
(* The location test.                                                      *)

\* the alphanumeric tokens of a string: the maximal runs of letters and
\* digits of its lower-cased form
IsAlnum(c) == c \in LowerSet \/ c \in DigitSet
AlnumRuns(s) ==
  LET low == toLowerCase(s)
  IN { SubSeq(low, i, j) : << i, j >> \in
         { p \in (DOMAIN low) \X (DOMAIN low) :
             /\ p[1] <= p[2]
             /\ \A k \in p[1]..p[2] : IsAlnum(low[k])
             /\ (p[1] = 1 \/ ~IsAlnum(low[p[1] - 1]))
             /\ (p[2] = Len(low) \/ ~IsAlnum(low[p[2] + 1])) } }

LocationTokens == AlnumRuns(location)
LongLocationTokens == { t \in LocationTokens : Len(t) >= 3 }
LocationHits(d) ==
  Cardinality({ t \in LongLocationTokens :
                  includes(toLowerCase(d.title \o <<" ">> \o d.text), t) })
Threshold(tokenCount) ==
  LET half == tokenCount \div 2
      atLeastOne == IF half < 1 THEN 1 ELSE half
  IN IF atLeastOne > 2 THEN 2 ELSE atLeastOne

\* the filter and the scorer treat d as a strong location match: with
\* strict-local mode off a document off the allow-list is kept exactly then,
\* and the score of a kept document has the 2 of the location term exactly then
TreatedAsMatch(d) == strongLocationMatch(d.title, d.text, location)
KeptOnMatchOnly(d, matches) ==
  (~RETRIEVER_STRICT_LOCAL /\ ~OnAllowListedHost(d)) =>
    (d.url \in Urls(filtered) <=> matches)

(* C11, as stated: a strong location match holds exactly when the number   *)
(* of location tokens of length >= 3 found in the lower-cased title+text   *)
(* is at least min(2, max(1, floor(n/2))), n the number of location tokens *)
(* of length >= 3.                                                         *)
C11_MatchThresholdOverLongTokens ==
  Returned =>
    \A i \in DOMAIN rawDocs :
      LET matches == LocationHits(rawDocs[i]) >= Threshold(Cardinality(LongLocationTokens))
      IN /\ TreatedAsMatch(rawDocs[i]) <=> matches
         /\ KeptOnMatchOnly(rawDocs[i], matches)

(* C11, amended: the same with n the number of distinct alphanumeric       *)
(* tokens of the location, the short ones included.                        *)
C11_MatchThresholdOverAllTokens ==
  Returned =>
    \A i \in DOMAIN rawDocs :
      LET matches == LocationHits(rawDocs[i]) >= Threshold(Cardinality(LocationTokens))
      IN /\ TreatedAsMatch(rawDocs[i]) <=> matches
         /\ KeptOnMatchOnly(rawDocs[i], matches)

\* a location of four tokens, one of them short: a page off the allow-list
\* that names one long token only was dropped with strict-local mode off
C11_Witness ==
  /\ Returned /\ ~RETRIEVER_STRICT_LOCAL
  /\ Cardinality(LocationTokens) = 4 /\ Cardinality(LongLocationTokens) = 3
  /\ \E i \in DOMAIN rawDocs :
       /\ ~OnAllowListedHost(rawDocs[i])
       /\ LocationHits(rawDocs[i]) = 1
       /\ rawDocs[i].url \notin Urls(filtered)

----------------------------------------------------------------------------
(* The Austin scenario.                                                    *)

IsAustinReport(d) ==
  /\ IsHostUnder(HostOf(d), <<"a","u","s","t","i","n","t","e","x","a","s",".","g","o","v">>)
  /\ d.title = <<"A","u","s","t","i","n"," ","W","a","t","e","r"," ","Q","u","a","l","i","t","y"," ","R","e","p","o","r","t"," ","2","0","2","4">>
  /\ includes(d.text, <<"A","u","s","t","i","n">>) /\ includes(d.text, <<"T","e","x","a","s">>)

\* a page on an EPA host whose title and text name no location keyword
IsEpaPageWithoutLocation(d) ==
  /\ IsHostUnder(HostOf(d), <<"e","p","a",".","g","o","v">>)
  /\ LocationHits(d) = 0

HasSafetyKeyword(d) == matchesSafety(TitleAndText(d))

(* C12, as stated: for "Austin, TX" the Austin report is kept, has tier    *)
(* state, and scores strictly higher than every EPA page whose title and   *)
(* text lack the location keywords.                                        *)
C12_AustinReportOutscoresEpaPages ==
  (Returned /\ location = <<"A","u","s","t","i","n",","," ","T","X">>) =>
    \A i \in DOMAIN rawDocs : IsAustinReport(rawDocs[i]) =>
      /\ rawDocs[i].url \in Urls(filtered)
      /\ rawDocs[i].tier = "state"
      /\ \A j \in DOMAIN ranked : IsEpaPageWithoutLocation(ranked[j]) =>
           rawDocs[i].score # <<>> /\ rawDocs[i].score[1] > ranked[j].score[1]

(* C12, amended: the same for every EPA page whose title and text lack the *)
(* location keywords and the safety keywords; the report scores at least   *)
(* 7 and such a page at most 6.                                            *)
C12_AustinReportOutscoresPlainEpaPages ==
  (Returned /\ location = <<"A","u","s","t","i","n",","," ","T","X">>) =>
    \A i \in DOMAIN rawDocs : IsAustinReport(rawDocs[i]) =>
      /\ rawDocs[i].url \in Urls(filtered)
      /\ rawDocs[i].tier = "state"
      /\ rawDocs[i].score # <<>> /\ rawDocs[i].score[1] >= 7
      /\ \A j \in DOMAIN ranked :
           (IsEpaPageWithoutLocation(ranked[j]) /\ ~HasSafetyKeyword(ranked[j])) =>
             ranked[j].score[1] <= 6 /\ rawDocs[i].score[1] > ranked[j].score[1]

\* the report, undated, was ranked in one run with a dated EPA page that
\* has no location and no safety keyword
C12_Witness ==
  /\ Returned /\ location = <<"A","u","s","t","i","n",","," ","T","X">>
  /\ \E i, j \in DOMAIN ranked :
       /\ IsAustinReport(ranked[i]) /\ ranked[i].publishedAt = <<>>
       /\ IsEpaPageWithoutLocation(ranked[j]) /\ ~HasSafetyKeyword(ranked[j])
       /\ ranked[j].publishedAt # <<>>

----------------------------------------------------------------------------
(* Recency is monotonic.                                                   *)

\* the dates a scored document is compared at: the two age limits, the day
\* before each, and a day after now
ProbeDays == { Now - 365, Now - 364, Now - 60, Now - 59, Now + 1 }
Redated(d, day) == [d EXCEPT !.publishedAt = << [iso |-> day] >>]
ScoreAt(d) == score(Unscored(d), localAllow, location, Now)

(* C13: of two documents that differ only in publishedAt, both dated, and  *)
(* scored at the same time, the more recently dated one never scores       *)
(* lower, dates after now included.  The documents compared are the first  *)
(* and the last of each returned list, each against its copies dated at    *)
(* the probe days.                                                         *)
C13_MoreRecentNeverScoresLower ==
  Returned =>
    \A i \in DOMAIN result \cap { 1, Len(result) } : result[i].publishedAt # <<>> =>
      \A day \in ProbeDays : \A other \in { ScoreAt(Redated(result[i], day)) } :
        LET mine == result[i].score[1]
            myDay == result[i].publishedAt[1].iso
        IN /\ day >= myDay => other >= mine
           /\ day <= myDay => other <= mine

\* a returned document dated in the last 60 days, which scores higher
\* than its copy dated a year back and no higher than its copy dated tomorrow
C13_Witness ==
  /\ Returned
  /\ \E i \in DOMAIN result :
       /\ result[i].publishedAt # <<>>
       /\ Now - result[i].publishedAt[1].iso \in 0..59
       /\ ScoreAt(Redated(result[i], Now - 365)) < result[i].score[1]
       /\ ScoreAt(Redated(result[i], Now + 1)) = result[i].score[1]

----------------------------------------------------------------------------
(* Tiers.                                                                  *)

HasSuffix(h, suffix) ==
  Len(h) >= Len(suffix) /\ SubSeq(h, Len(h) - Len(suffix) + 1, Len(h)) = suffix

\* the hostname rule
TierByHostname(h) ==
  IF HasSuffix(h, <<".","g","o","v">>)
  THEN IF includes(h, <<"e","p","a",".","g","o","v">>) \/ includes(h, <<"c","d","c",".","g","o","v">>) THEN "federal" ELSE "state"
  ELSE IF HasSuffix(h, <<".","u","s">>) THEN "local"
  ELSE IF h \in { <<"e","p","a",".","g","o","v">>, <<"c","d","c",".","g","o","v">>, <<"w","h","o",".","i","n","t">> } THEN "federal"
  ELSE "other"

----------------------------------------------------------------------------
(* What the stages after fetch/parse write.                                *)

(* C15: every step leaves url, title, text, snippet, publishedAt,          *)
(* contentType and tier of each created document as they were; score is    *)
(* absent until the scoring stage, is written once, and only on the        *)
(* documents that passed the filter; the ranked and the returned documents *)
(* are those documents.                                                    *)
C15_OnlyScoreIsWritten ==
  [][ /\ Len(rawDocs') >= Len(rawDocs)
      /\ \A i \in DOMAIN rawDocs :
           /\ Unscored(rawDocs'[i]) = Unscored(rawDocs[i])
           /\ rawDocs[i].score # <<>> => rawDocs'[i].score = rawDocs[i].score
      /\ pc' # "returned" => \A i \in DOMAIN rawDocs' : rawDocs'[i].score = <<>>
      /\ pc' = "returned" =>
           /\ \A i \in DOMAIN rawDocs' :
                rawDocs'[i].score # <<>> <=> rawDocs'[i].url \in Urls(filtered')
           /\ \A i \in DOMAIN filtered' : \E k \in DOMAIN rawDocs : filtered'[i] = rawDocs[k]
           /\ \A i \in DOMAIN ranked' : \E k \in DOMAIN rawDocs' : ranked'[i] = rawDocs'[k]
           /\ \A i \in DOMAIN result' : \E k \in DOMAIN rawDocs' : result'[i] = rawDocs'[k]
    ]_vars

\* a returned run with a scored document and a dropped, unscored one
C15_Witness ==
  /\ Returned /\ Len(result) >= 2
  /\ \E i, j \in DOMAIN rawDocs :
       /\ rawDocs[i].score # <<>> /\ rawDocs[i].url \in Urls(result)
       /\ rawDocs[j].score = <<>> /\ rawDocs[j].url \notin Urls(filtered)

----------------------------------------------------------------------------
(* Seeds.                                                                  *)

Distinct(seq) == \A i, j \in DOMAIN seq : i # j => seq[i] # seq[j]
UrlsOf(docs) == [i \in DOMAIN docs |-> docs[i].url]

(* C16: the seeds of a run are pairwise distinct and the fetch loop makes  *)
(* one fetch per seed, the k-th fetch for the k-th seed, so no URL is      *)
(* fetched twice; the collected and the returned documents have pairwise   *)
(* distinct urls.                                                          *)
C16_SeedsAndResultsAreDistinct ==
  /\ Distinct(seeds)
  /\ Len(responses) <= Len(seeds)
  /\ (pc = "fetch" => Len(responses) = seedIdx - 1)
  /\ Distinct(UrlsOf(rawDocs))
  /\ Distinct(UrlsOf(result))

\* the search answered twice with a list that repeats a curated seed, and
\* the page of that seed was returned
C16_Witness ==
  /\ Returned /\ searchRequests = NumQueries
  /\ AUSTIN_REPORT \in Range(seeds) /\ NOT_EPA \in Range(seeds)
  /\ EPA_CCR \in Urls(result) /\ Len(result) >= 2

EpaCcrPortal == [ host |-> <<"w","w","w",".","e","p","a",".","g","o","v">>, path |-> "/ccr" ]
CdcAdvisoriesPage ==
  [ host |-> <<"w","w","w",".","c","d","c",".","g","o","v">>,
    path |-> "/healthywater/emergency/drinking/drinking-water-advisories.html" ]

(* C17: for every location and search configuration the seed set, once     *)
(* built, contains the EPA CCR portal and the CDC drinking-water           *)
(* advisories page, whatever the search adds.                              *)
C17_FederalSeedsAlwaysPresent ==
  pc # "start" => (EpaCcrPortal \in Range(seeds) /\ CdcAdvisoriesPage \in Range(seeds))

\* a run for a location with curated local seeds, after the search added
\* its results, with both federal pages among the seeds
C17_Witness ==
  /\ pc = "fetch" /\ searchRequests = NumQueries
  /\ TX_TCEQ \in Range(seeds) /\ BLOG \in Range(seeds)
  /\ EpaCcrPortal \in Range(seeds) /\ CdcAdvisoriesPage \in Range(seeds)

SearchConfigured == searchProvider = "tavily" /\ apiKey # <<>>

(* C18: when SEARCH_PROVIDER is not 'tavily' or no API key is set, no      *)
(* search request is issued, the call does not reject, and the seed set is *)
(* exactly the curated seeds of the location.                              *)
C18_NoSearchWithoutConfiguration ==
  (~SearchConfigured /\ pc # "start") =>
    /\ searchRequests = 0
    /\ pc # "rejected"
    /\ seeds = curatedSeeds(location)

\* a run with a key and no provider returned documents fetched from the
\* curated seeds of a location that has local ones
C18_Witness ==
  /\ Returned /\ result # <<>> /\ Len(seeds) > 2
  /\ searchRequests = 0
  /\ searchProvider = "" /\ apiKey # <<>>

----------------------------------------------------------------------------
(* Dates and types of the created documents.                               *)

\* the date the document itself gives: the PDF's date, or what is extracted
\* from the page's metadata and <time> element
OwnDate(resp) ==
  IF IsPdfType(resp)
  THEN IF resp.body.pdfDate # <<>> /\ resp.body.pdfDate[1].parses
       THEN << [iso |-> resp.body.pdfDate[1].day] >> ELSE <<>>
  ELSE extractDateFromHtml(resp.body)

HeaderDate(resp) == << [iso |-> resp.lastMod[1].day] >>

(* C19: a date the document itself gives is the publishedAt, whatever the  *)
(* Last-Modified header says; a document that gives none and comes with a  *)
(* Last-Modified header has the ISO form of the header value; a document   *)
(* that gives none and has no header has no publishedAt.  A header value  *)
(* that is a date has an ISO form, and its document is created.            *)
C19_LastModifiedOnlyFillsMissingDate ==
  \A i \in DOMAIN responses :
    LET resp == responses[i] IN
    /\ \A k \in DOMAIN rawDocs : rawDocs[k].url = seeds[i] =>
         /\ OwnDate(resp) # <<>> => rawDocs[k].publishedAt = OwnDate(resp)
         /\ (OwnDate(resp) = <<>> /\ resp.lastMod # <<>>) =>
              rawDocs[k].publishedAt = HeaderDate(resp)
         /\ (OwnDate(resp) = <<>> /\ resp.lastMod = <<>>) => rawDocs[k].publishedAt = <<>>
    /\ (resp.net = "ok" /\ ~FetchFailed(resp) /\ OwnDate(resp) = <<>>
          /\ resp.lastMod # <<>> /\ resp.lastMod[1].parses) =>
         seeds[i] \in Urls(rawDocs)

\* one run returned a document dated by itself although the header gave
\* another date, and a document dated by the header
C19_Witness ==
  /\ Returned
  /\ \E i, j \in DOMAIN responses :
       /\ OwnDate(responses[i]) # <<>> /\ responses[i].lastMod # <<>>
       /\ responses[i].lastMod[1].parses /\ HeaderDate(responses[i]) # OwnDate(responses[i])
       /\ seeds[i] \in Urls(result)
       /\ OwnDate(responses[j]) = <<>> /\ responses[j].lastMod # <<>>
       /\ \E k \in DOMAIN result :
            result[k].url = seeds[j] /\ result[k].publishedAt = HeaderDate(responses[j])

(* C20: every created document has contentType application/pdf or         *)
(* text/html: application/pdf when the content-type header contains "pdf", *)
(* text/html when it does not and contains "html" or "text"; a response of *)
(* any other type gives no document, and the call does not reject.         *)
C20_DocumentsAreTyped ==
  /\ \A k \in DOMAIN rawDocs :
       rawDocs[k].contentType \in { <<"a","p","p","l","i","c","a","t","i","o","n","/","p","d","f">>, <<"t","e","x","t","/","h","t","m","l">> }
  /\ \A i \in DOMAIN responses :
       /\ \A k \in DOMAIN rawDocs : rawDocs[k].url = seeds[i] =>
            /\ includes(responses[i].ct, <<"p","d","f">>) => rawDocs[k].contentType = <<"a","p","p","l","i","c","a","t","i","o","n","/","p","d","f">>
            /\ ~includes(responses[i].ct, <<"p","d","f">>) =>
                 /\ includes(responses[i].ct, <<"h","t","m","l">>) \/ includes(responses[i].ct, <<"t","e","x","t">>)
                 /\ rawDocs[k].contentType = <<"t","e","x","t","/","h","t","m","l">>
       /\ (responses[i].net = "ok" /\ ~IsPdfType(responses[i]) /\ ~IsHtmlType(responses[i])) =>
            /\ seeds[i] \notin Urls(rawDocs)
            /\ pc # "rejected"

\* one run got an image/png, which gave nothing, and returned the
\* document of a text/plain response
C20_Witness ==
  /\ Returned
  /\ \E i, j \in DOMAIN responses :
       /\ responses[i].net = "ok" /\ responses[i].status = 200
       /\ responses[i].ct = <<"i","m","a","g","e","/","p","n","g">>
       /\ responses[j].ct = <<"t","e","x","t","/","p","l","a","i","n">>
       /\ \E k \in DOMAIN result :
            result[k].url = seeds[j] /\ result[k].contentType = <<"t","e","x","t","/","h","t","m","l">>

----------------------------------------------------------------------------
(* The page loop of parsePdf, one getPage at a time.  Only the sizes       *)
(* matter here, so a page text is given by its length: every page is one   *)
(* text item of that many characters, none of them white space.            *)

\* the lengths a page text is drawn from: a short line, two pages that sum
\* to the cap exactly or pass it by one, and a page three times the cap
PageTextLens == { 1, PdfTextCap \div 2 - 1, PdfTextCap \div 2, 3 * PdfTextCap }

RECURSIVE sumFrom(_, _)
sumFrom(lens, i) == IF i > Len(lens) THEN 0 ELSE lens[i] + sumFrom(lens, i + 1)

\* textChunks.join(sep).length for a one-character separator
joinLength(chunks) ==
  IF chunks = <<>> THEN 0 ELSE sumFrom(chunks, 1) + (Len(chunks) - 1)

\* Math.min(pdf.numPages, 12)
pdfMaxPages == Min(pdfNumPages, MaxPdfPages)

\* pdf.js has loaded a document of some number of pages; the loop starts
PdfLoaded ==
  /\ pdfPc = "idle"
  /\ pdfNumPages' \in 0..MaxNumPages
  /\ pdfPc' = "loop"
  /\ UNCHANGED << pdfPage, pdfPagesRead, pdfChunks, pdfTextLen >>
  /\ UNCHANGED << retrieverVars, resolverVars, chunkVars, handlerVars >>

\* variant: the loop has no break
PdfGetPage_noBreak ==
  /\ pdfPc = "loop"
  /\ pdfPage <= pdfMaxPages
  /\ pdfPagesRead' = Append(pdfPagesRead, pdfPage)
  /\ \E len \in PageTextLens : pdfChunks' = Append(pdfChunks, len)
  /\ pdfPage' = pdfPage + 1
  /\ UNCHANGED << pdfPc, pdfNumPages, pdfTextLen >>
  /\ UNCHANGED << retrieverVars, resolverVars, chunkVars, handlerVars >>

\* one iteration of the loop: the page is read, its text is pushed, and the
\* loop breaks when the chunks joined by spaces are longer than the cap
PdfGetPage ==
  /\ pdfPc = "loop"
  /\ pdfPage <= pdfMaxPages
  /\ pdfPagesRead' = Append(pdfPagesRead, pdfPage)
  /\ \E len \in PageTextLens : pdfChunks' = Append(pdfChunks, len)
  /\ IF joinLength(pdfChunks') > PdfTextCap
     THEN pdfPc' = "joined" /\ pdfPage' = pdfPage
     ELSE pdfPc' = pdfPc /\ pdfPage' = pdfPage + 1
  /\ UNCHANGED << pdfNumPages, pdfTextLen >>
  /\ UNCHANGED << retrieverVars, resolverVars, chunkVars, handlerVars >>

\* the loop condition fails
PdfLoopEnds ==
  /\ pdfPc = "loop"
  /\ pdfPage > pdfMaxPages
  /\ pdfPc' = "joined"
  /\ UNCHANGED << pdfNumPages, pdfPage, pdfPagesRead, pdfChunks, pdfTextLen >>
  /\ UNCHANGED << retrieverVars, resolverVars, chunkVars, handlerVars >>

\* raw and text: the chunks joined by newlines; white space collapsed and
\* trimmed, which changes no length when no page has white space
PdfText ==
  /\ pdfPc = "joined"
  /\ pdfTextLen' = << joinLength(pdfChunks) >>
  /\ pdfPc' = "done"
  /\ UNCHANGED << pdfNumPages, pdfPage, pdfPagesRead, pdfChunks >>
  /\ UNCHANGED << retrieverVars, resolverVars, chunkVars, handlerVars >>

PdfInit == RetrieverIdle /\ OthersIdle

PdfNext == PdfLoaded \/ PdfGetPage \/ PdfLoopEnds \/ PdfText

SpecPdf == PdfInit /\ [][PdfNext]_vars

(* C21: the length of the text extracted from a PDF is near the cap of     *)
(* 20,000 characters at most, read as: under twice the cap, whatever the   *)
(* number of pages and the sizes of the page texts.                        *)
C21_PdfTextIsCapped ==
  pdfTextLen # <<>> => pdfTextLen[1] < 2 * PdfTextCap

(* C22: the getPage calls are for pages 1, 2, 3, ... in order, at most     *)
(* min(numPages, 12) of them, and none is made once the chunks read so far *)
(* are longer than 20,000 characters together.                             *)
C22_PagesReadInOrderUntilCap ==
  /\ \A k \in DOMAIN pdfPagesRead : pdfPagesRead[k] = k
  /\ Len(pdfPagesRead) <= Min(pdfNumPages, MaxPdfPages)
  /\ Len(pdfChunks) = Len(pdfPagesRead)
  /\ \A k \in DOMAIN pdfChunks :
       k < Len(pdfChunks) => joinLength(SubSeq(pdfChunks, 1, k)) <= PdfTextCap

\* of a document of more than 12 pages, several pages were read and the
\* reading stopped behind the page that passed the cap, before page 12
C22_Witness ==
  /\ pdfPc = "done"
  /\ pdfNumPages > MaxPdfPages
  /\ Len(pdfPagesRead) > 1
  /\ Len(pdfPagesRead) < MaxPdfPages
  /\ joinLength(pdfChunks) > PdfTextCap

----------------------------------------------------------------------------
(* The location resolver on its own: inferStateCode and deriveLocalDomains *)
(* for a location, then curatedSeeds for the same location.                *)

Places ==
  { <<>>, <<"A","u","s","t","i","n">>, <<"T","r","a","v","i","s"," ","C","o","u","n","t","y">>, <<"F","l","i","n","t">>, <<"J","a","c","k","s","o","n">>, <<"B","r","o","o","k","l","y","n">>,
    <<"N","Y","C">>, <<"n","y","c","i","t","y">>, <<"S","t","a","t","e","n"," ","I","s","l","a","n","d">>, <<"P","i","t","t","s","b","u","r","g","h">>, <<"A","l","l","e","g","h","e","n","y"," ","C","o","u","n","t","y">>,
    <<"S","p","r","i","n","g","f","i","e","l","d">> }

StateParts ==
  { <<>>, <<"T","X">>, <<"t","x">>, <<"T","e","x","a","s">>, <<"M","S">>, <<"M","i","s","s","i","s","s","i","p","p","i">>, <<"M","I">>, <<"N","Y">>,
    <<"N","e","w"," ","Y","o","r","k">>, <<"P","A">>, <<"C","A">>, <<"F","l","o","r","i","d","a">>, <<"Z","Z">>, <<"U","S",","," ","M","S">>, <<"M","i","s","s","i","s","s","i","p","p","i",","," ","U","S">>, <<"T","X","7","8","7","0","1">>,
    <<"M","i","c","h","i","g","a","n",","," ","N","e","w"," ","Y","o","r","k">> }

LocationText(place, state) ==
  IF place = <<>> THEN state
  ELSE IF state = <<>> THEN place
  ELSE place \o <<","," ">> \o state

LocationTexts == { LocationText(place, state) : place \in Places, state \in StateParts }

\* const st = inferStateCode(location) and the rest of deriveLocalDomains
DeriveLocalDomains ==
  /\ resolverPc = "idle"
  /\ \E loc \in LocationTexts :
       /\ resolverLocation' = loc
       /\ resolverState' = inferStateCode(loc)
       /\ resolverDomains' = deriveLocalDomains(loc)
  /\ resolverPc' = "derived"
  /\ UNCHANGED resolverSeeds
  /\ UNCHANGED << retrieverVars, pdfVars, chunkVars, handlerVars >>

\* curatedSeeds(location), for the location the domains were derived for
CuratedSeeds ==
  /\ resolverPc = "derived"
  /\ resolverSeeds' = curatedSeeds(resolverLocation)
  /\ resolverPc' = "seeded"
  /\ UNCHANGED << resolverLocation, resolverState, resolverDomains >>
  /\ UNCHANGED << retrieverVars, pdfVars, chunkVars, handlerVars >>

ResolverInit == RetrieverIdle /\ OthersIdle

ResolverNext == DeriveLocalDomains \/ CuratedSeeds

SpecResolver == ResolverInit /\ [][ResolverNext]_vars

\* the places of a text where a two-letter uppercase token stands: two
\* capital letters with no letter, digit or underscore next to them
TwoLetterTokens(s) ==
  { i \in 1..(Len(s) - 1) :
      /\ s[i] \in UpperSet /\ s[i + 1] \in UpperSet
      /\ (i > 1 => ~IsWord(s[i - 1]))
      /\ (i + 2 <= Len(s) => ~IsWord(s[i + 2])) }

\* the codes of the dictionary state names a text contains
NamedStates(s) ==
  { StateNameDict[k][2] : k \in { j \in DOMAIN StateNameDict : includes(toLowerCase(s), StateNameDict[j][1]) } }

Contains(s, words) == \E w \in words : includes(toLowerCase(s), w)

\* nyc as a word of its own
NamesNyc(s) ==
  \E i \in 1..(Len(s) - 2) :
    /\ SubSeq(toLowerCase(s), i, i + 2) = <<"n","y","c">>
    /\ (i > 1 => ~IsWord(s[i - 1]))
    /\ (i + 3 <= Len(s) => ~IsWord(s[i + 3]))

\* the special cases: the domain sets whose pattern matches the text
SpecialDomains(s, st) ==
  (IF NamesNyc(s) \/ Contains(s, { <<"n","e","w"," ","y","o","r","k"," ","c","i","t","y">>, <<"m","a","n","h","a","t","t","a","n">>, <<"b","r","o","o","k","l","y","n">>,
                                   <<"q","u","e","e","n","s">>, <<"b","r","o","n","x">>, <<"s","t","a","t","e","n"," ","i","s","l","a","n","d">> })
   THEN { <<"n","y","c",".","g","o","v">>, <<"d","e","p",".","n","y","c",".","g","o","v">> } ELSE {})
  \cup (IF Contains(s, { <<"f","l","i","n","t">> }) THEN { <<"c","i","t","y","o","f","f","l","i","n","t",".","c","o","m">>, <<"m","i","c","h","i","g","a","n",".","g","o","v">> } ELSE {})
  \cup (IF Contains(s, { <<"j","a","c","k","s","o","n">> }) /\ (st = << <<"M","S">> >> \/ Contains(s, { <<"m","i","s","s","i","s","s","i","p","p","i">> }))
        THEN { <<"j","a","c","k","s","o","n","m","s",".","g","o","v">>, <<"m","s","d","h",".","m","s",".","g","o","v">> } ELSE {})
  \cup (IF Contains(s, { <<"t","r","a","v","i","s"," ","c","o","u","n","t","y">>, <<"a","u","s","t","i","n">> })
        THEN { <<"t","r","a","v","i","s","c","o","u","n","t","y","t","x",".","g","o","v">>, <<"a","u","s","t","i","n","t","e","x","a","s",".","g","o","v">>, <<"t","c","e","q",".","t","e","x","a","s",".","g","o","v">>, <<"a","u","s","t","i","n","w","a","t","e","r",".","o","r","g">> }
        ELSE {})
  \cup (IF Contains(s, { <<"p","i","t","t","s","b","u","r","g","h">>, <<"a","l","l","e","g","h","e","n","y">> })
        THEN { <<"p","g","h","2","o",".","c","o","m">>, <<"a","l","l","e","g","h","e","n","y","c","o","u","n","t","y",".","u","s">>, <<"d","e","p",".","p","a",".","g","o","v">>, <<"p","i","t","t","s","b","u","r","g","h","p","a",".","g","o","v">> }
        ELSE {})

\* the per-state table entry of a code, empty for null and for a code the
\* table does not have
TableDomains(st) == IF st = <<>> THEN {} ELSE Range(STATE_DOMAINS(st[1]))

(* C23: the state code is the first word-bounded two-letter uppercase      *)
(* token of the location when it has one, otherwise the code of a          *)
(* dictionary state name its lower-cased text contains, otherwise null;    *)
(* the derived domains are the table entry of that code united with the    *)
(* domain sets of the special cases whose pattern matches.                 *)
C23_StateAndDomainsOfLocation ==
  resolverPc # "idle" =>
    LET s == resolverLocation
        st == resolverState
    IN /\ TwoLetterTokens(s) # {} =>
            st = << SubSeq(s, minOf(TwoLetterTokens(s)), minOf(TwoLetterTokens(s)) + 1) >>
       /\ (TwoLetterTokens(s) = {} /\ NamedStates(s) # {}) =>
            st # <<>> /\ st[1] \in NamedStates(s)
       /\ (TwoLetterTokens(s) = {} /\ NamedStates(s) = {}) => st = <<>>
       /\ Range(resolverDomains) = TableDomains(st) \cup SpecialDomains(s, st)

\* a location with a state name and a later two-letter token that is no
\* state: the token is the code, the table has no entry for it, and the
\* Jackson case gives its domains for the name Mississippi
C23_Witness ==
  /\ resolverPc = "derived"
  /\ resolverLocation = <<"J","a","c","k","s","o","n",","," ","M","i","s","s","i","s","s","i","p","p","i",","," ","U","S">>
  /\ resolverState = << <<"U","S">> >>
  /\ Range(resolverDomains) = { <<"j","a","c","k","s","o","n","m","s",".","g","o","v">>, <<"m","s","d","h",".","m","s",".","g","o","v">> }

(* C28: every URL of curatedSeeds has a hostname that matches the          *)
(* allow-list of the same location, epa.gov and cdc.gov with the derived   *)
(* domains; so the strict filter keeps the document of every seed,         *)
(* whatever its title and text.                                            *)
C28_SeedsAreAllowListed ==
  resolverPc = "seeded" =>
    \A k \in DOMAIN resolverSeeds :
      /\ \E dom \in FederalDomains \cup Range(resolverDomains) :
           IsHostUnder(toLowerCase(resolverSeeds[k].host), dom)
      /\ keepDoc([url |-> resolverSeeds[k], title |-> <<>>, text |-> <<>>],
                 allowOf(resolverDomains), resolverLocation, TRUE)

\* a location with seeds of its own beside the two federal ones
C28_Witness ==
  /\ resolverPc = "seeded"
  /\ Len(resolverSeeds) >= 5
  /\ PGH2O \in Range(resolverSeeds)
  /\ NYC_DEP \in Range(resolverSeeds)

(* C29: every assigned score is an integer from 0 to 11, and no scored     *)
(* document is on a host that matches both a base allow-list domain and a  *)
(* domain derived from the location, so none has both host bonuses.        *)
C29_ScoreAtMostEleven ==
  \A k \in DOMAIN ranked :
    /\ ranked[k].score # <<>>
    /\ ranked[k].score[1] \in 0..11
    /\ ~(OnFederalHost(ranked[k]) /\ OnLocationHost(ranked[k]))

\* a returned document has every bonus a document on a local host can have
C29_Witness ==
  /\ Returned
  /\ \E k \in DOMAIN result :
       result[k].score = << 11 >> /\ OnLocationHost(result[k])

----------------------------------------------------------------------------
(* chunkByWords and the delta loop: the answer is cut into chunks, each is *)
(* sent as a delta event, and the client appends each delta text to the    *)
(* content of its message.                                                 *)

\* the end of the run of characters that starts at i: the last position up
\* to which all characters are white space, or all are not, as s[i] is
RECURSIVE runEnd(_, _)
runEnd(s, i) ==
  IF i < Len(s) /\ IsSpace(s[i + 1]) = IsSpace(s[i]) THEN runEnd(s, i + 1) ELSE i

RECURSIVE runsFrom(_, _)
runsFrom(s, i) ==
  IF i > Len(s) THEN <<>>
  ELSE << SubSeq(s, i, runEnd(s, i)) >> \o runsFrom(s, runEnd(s, i) + 1)

\* text.split(/(\s+)/): the words and, kept as tokens, the white space
\* between them; an empty token stands before leading and after trailing
\* white space
splitKeepingSpaces(s) ==
  IF s = <<>> THEN << <<>> >>
  ELSE (IF IsSpace(s[1]) THEN << <<>> >> ELSE <<>>)
       \o runsFrom(s, 1)
       \o (IF IsSpace(s[Len(s)]) THEN << <<>> >> ELSE <<>>)

\* the for loop of chunkByWords and the push behind it
RECURSIVE chunkLoop(_, _, _, _, _)
chunkLoop(toks, i, buf, parts, max) ==
  IF i > Len(toks) THEN (IF buf # <<>> THEN Append(parts, buf) ELSE parts)
  ELSE IF Len(buf \o toks[i]) > max /\ Len(trim(buf)) > 0
       THEN chunkLoop(toks, i + 1, trimStart(toks[i]), Append(parts, buf), max)
       ELSE chunkLoop(toks, i + 1, buf \o toks[i], parts, max)

chunkByWords(text, max) ==
  IF text = <<>> THEN <<>>
  ELSE chunkLoop(splitKeepingSpaces(text), 1, <<>>, <<>>, max)

\* the texts the chunking is tried on: every text of words and blanks up to
\* the longest length
TextChars == { "a", " " }
Texts == UNION { [1..n -> TextChars] : n \in 0..MaxTextLen }

ChunkInit ==
  /\ RetrieverIdle /\ PdfIdle /\ ResolverIdle /\ HandlerIdle
  /\ ckPc = "idle"
  /\ ckText \in Texts
  /\ ckMax \in 1..MaxChunkSize
  /\ ckParts = <<>>
  /\ ckSent = 0
  /\ ckContent = <<>>

\* const chunks = chunkByWords(answer, max)
ChunkAnswer ==
  /\ ckPc = "idle"
  /\ ckParts' = chunkByWords(ckText, ckMax)
  /\ ckPc' = "streaming"
  /\ UNCHANGED << ckText, ckMax, ckSent, ckContent >>
  /\ UNCHANGED << retrieverVars, pdfVars, resolverVars, handlerVars >>

\* one iteration of the delta loop, and appendDelta on the client
SendDelta ==
  /\ ckPc = "streaming"
  /\ ckSent < Len(ckParts)
  /\ ckSent' = ckSent + 1
  /\ ckContent' = ckContent \o ckParts[ckSent + 1]
  /\ UNCHANGED << ckPc, ckText, ckMax, ckParts >>
  /\ UNCHANGED << retrieverVars, pdfVars, resolverVars, handlerVars >>

\* the delta loop is over
DeltasSent ==
  /\ ckPc = "streaming"
  /\ ckSent = Len(ckParts)
  /\ ckPc' = "done"
  /\ UNCHANGED << ckText, ckMax, ckParts, ckSent, ckContent >>
  /\ UNCHANGED << retrieverVars, pdfVars, resolverVars, handlerVars >>

ChunkNext == ChunkAnswer \/ SendDelta \/ DeltasSent

SpecChunk == ChunkInit /\ [][ChunkNext]_vars

(* C30: chunkByWords returns non-empty chunks only, and their              *)
(* concatenation in order is the answer: once every delta is appended, the *)
(* content of the client is the answer text.                               *)
C30_ChunksRebuildAnswer ==
  /\ \A k \in DOMAIN ckParts : ckParts[k] # <<>>
  /\ ckPc = "done" => ckContent = ckText

----------------------------------------------------------------------------
(* handleQuery and the two routes that call it.  The retriever and the LLM *)
(* adapter are taken by what they can answer: fetchAuthoritative returns a *)
(* list of documents, rejects, or never settles; the adapter throws or     *)
(* returns [raw, json], json <<>> when the output is no JSON.              *)

\* QueryRequestZ: the message content and the location, when given, have
\* at least one character
requestValid(question, loc) ==
  /\ Len(question) >= 1
  /\ loc # <<>> => Len(loc[1]) >= 1

\* documents as the retriever returns them
AustinDoc == parseHtml(AUSTIN_WATER, AustinPage(<<>>, << DateStr(Now - 59) >>).body)
EpaDoc == parseHtml(EPA_CCR, GenericPage(<<>>, << <<>>, <<>>, <<>>, << DateStr(Now - 5) >> >>).body)
UndatedDoc == parseHtml(EPA_SDWA, GenericPage(<<>>, NoMeta).body)

DocLists == { <<>>, << UndatedDoc >>, << AustinDoc, EpaDoc >> }

\* the JSON of the model output: each member <<>> when it is missing
LlmJson(answer, sources, confidence, lastUpdated, suggestions) ==
  [ answer |-> answer, sources |-> sources, confidence |-> confidence,
    last_updated |-> lastUpdated, suggestions |-> suggestions ]

InventedSource ==
  [ title |-> <<"W","a","t","e","r"," ","f","a","c","t","s">>, url |-> Url(<<"w","a","t","e","r","f","a","c","t","s",".","e","x","a","m","p","l","e",".","c","o","m">>, "/"), publisher |-> <<"U","n","k","n","o","w","n">> ]

LlmOutputs ==
  { [ raw |-> <<"{",".",".",".","}">>,
      json |-> << LlmJson(<< <<" "," ","A","u","s","t","i","n"," ","t","a","p"," ","w","a","t","e","r"," ","m","e","e","t","s"," ","t","h","e"," ","f","e","d","e","r","a","l"," ","a","n","d"," ","s","t","a","t","e"," ","s","t","a","n","d","a","r","d","s",","," ","s","a","y","s"," ","t","h","e"," ","2","0","2","4"," ","r","e","p","o","r","t","."," "," ">> >>,
                          << << InventedSource >> >>, << "high" >>, << DateStr(Now - 1) >>,
                          << << "a", "b", "c", "d", "e" >> >>) >> ],
    [ raw |-> <<"{"," ","}">>,
      json |-> << LlmJson(<<>>, <<>>, <<>>, << BadDate >>, <<>>) >> ],
    [ raw |-> <<"{",".",".",".","}">>,
      json |-> << LlmJson(<< <<"P","r","o","b","a","b","l","y"," ","f","i","n","e",".">> >>, <<>>, << "certain" >>, <<>>, <<>>) >> ],
    [ raw |-> <<"I"," ","t","h","i","n","k"," ","t","h","e"," ","w","a","t","e","r"," ","i","s"," ","f","i","n","e",".">>, json |-> <<>> ] }

\* docs.map(d => ({ title, url, publisher: d.publisher || hostname })); the
\* documents of the retriever carry no publisher
sourcesOf(docs) ==
  [ i \in DOMAIN docs |->
      [ title |-> docs[i].title, url |-> docs[i].url, publisher |-> host(docs[i].url) ] ]

\* latestDocDateISO of the publishedAt of the documents, <<>> for null
latestDocDateISO(docs) ==
  LET xs == { getTime(docs[i].publishedAt[1]) : i \in { j \in DOMAIN docs : docs[j].publishedAt # <<>> } }
  IN IF xs = {} THEN <<>> ELSE << [iso |-> maxOf(xs)] >>

\* toIsoOrNull
toIsoOrNull(v) ==
  IF v = <<>> THEN <<>>
  ELSE IF newDate(v[1]).valid THEN << toISOString(newDate(v[1])) >>
  ELSE IF parseDate(v[1]) # <<>> THEN << toISOString(parseDate(v[1])[1]) >>
  ELSE <<>>

AnswerNoDocs ==
  <<"I"," ","c","o","u","l","d","n","'","t"," ","f","i","n","d"," ","a","u","t","h","o","r","i","t","a","t","i","v","e"," ","d","o","c","u","m","e","n","t","s"," ","f","o","r"," ","t","h","a","t"," ","l","o","c","a","t","i","o","n"," ","j","u","s","t"," ","n","o","w","."," ","T","r","y"," ","y","o","u","r"," ","c","i","t","y","/","c","o","u","n","t","y"," ","u","t","i","l","i","t","y"," ","s","i","t","e"," ","o","r"," ","t","h","e"," ","E","P","A"," ","C","C","R"," ","l","o","c","a","t","o","r",".">>

\* the response when no document was retrieved
fallbackResponse ==
  [ answer |-> AnswerNoDocs,
    sources |-> << [ title |-> <<"E","P","A"," ","C","o","n","s","u","m","e","r"," ","C","o","n","f","i","d","e","n","c","e"," ","R","e","p","o","r","t","s"," ","(","C","C","R",")">>, url |-> EPA_CCR,
                     publisher |-> <<"U","S"," ","E","P","A">> ] >>,
    safety |-> [ confidence |-> "unknown", last_updated |-> << [iso |-> Now] >> ],
    suggestions |-> << "Where do I find my city's CCR?", "Is there a boil-water notice today?" >> ]

heuristicAnswer(top) ==
  <<"B","a","s","e","d"," ","o","n"," ">> \o top.title \o <<","," ","h","e","r","e"," ","i","s"," ","t","h","e"," ","l","a","t","e","s","t"," ","w","e"," ","f","o","u","n","d","."," ","(","M","o","d","e","l"," ","o","f","f","l","i","n","e",":"," ","u","s","i","n","g"," ","h","e","u","r","i","s","t","i","c"," ","s","u","m","m","a","r","y",")">>

\* the response when the LLM call threw
minimalOffline(docs) ==
  [ answer |-> heuristicAnswer(docs[1]),
    sources |-> sourcesOf(docs),
    safety |-> [ confidence |-> "medium", last_updated |-> docs[1].publishedAt ],
    suggestions |-> << "Check your utility's CCR", "Ask: Are there PFAS advisories near me?" >> ]

\* the object built when the output is no JSON
minimalUnparsed(docs) ==
  [ answer |-> heuristicAnswer(docs[1]),
    sources |-> sourcesOf(docs),
    safety |-> [ confidence |-> "medium", last_updated |-> latestDocDateISO(docs) ],
    suggestions |-> << "Check your utility's CCR", "Ask: Are there PFAS advisories near me?" >> ]

\* variant: the sources of the model output are used when it has some
jsonResponse_modelSources(docs, json) ==
  [ answer |-> IF json.answer # <<>> /\ trim(json.answer[1]) # <<>>
               THEN trim(json.answer[1]) ELSE <<"(","N","o"," ","a","n","s","w","e","r",")">>,
    sources |-> IF json.sources # <<>> THEN json.sources[1] ELSE sourcesOf(docs),
    safety |-> [ confidence |-> IF json.confidence # <<>> THEN json.confidence[1] ELSE "unknown",
                 last_updated |-> IF toIsoOrNull(json.last_updated) # <<>>
                                  THEN toIsoOrNull(json.last_updated)
                                  ELSE latestDocDateISO(docs) ],
    suggestions |-> IF json.suggestions # <<>>
                    THEN SubSeq(json.suggestions[1], 1, Min(4, Len(json.suggestions[1])))
                    ELSE <<>> ]

\* the response built from the JSON of the model output
jsonResponse(docs, json) ==
  [ answer |-> IF json.answer # <<>> /\ trim(json.answer[1]) # <<>>
               THEN trim(json.answer[1]) ELSE <<"(","N","o"," ","a","n","s","w","e","r",")">>,
    sources |-> sourcesOf(docs),
    safety |-> [ confidence |-> IF json.confidence # <<>> THEN json.confidence[1] ELSE "unknown",
                 last_updated |-> IF toIsoOrNull(json.last_updated) # <<>>
                                  THEN toIsoOrNull(json.last_updated)
                                  ELSE latestDocDateISO(docs) ],
    suggestions |-> IF json.suggestions # <<>>
                    THEN SubSeq(json.suggestions[1], 1, Min(4, Len(json.suggestions[1])))
                    ELSE <<>> ]

\* QueryResponseZ.parse throws on a confidence outside the enum
responseValid(resp) == resp.safety.confidence \in { "low", "medium", "high", "unknown" }

\* how handleQuery settles: with a value (<<>> for undefined) or an error
Resolved(value) == << [ kind |-> "value", value |-> << value >>, why |-> "" ] >>
ResolvedUndefined == << [ kind |-> "value", value |-> <<>>, why |-> "" ] >>
Rejected(why) == << [ kind |-> "error", value |-> <<>>, why |-> why ] >>

Questions == { <<>>, <<"I","s"," ","m","y"," ","t","a","p"," ","w","a","t","e","r"," ","s","a","f","e","?">> }
RequestLocations == { <<>>, << <<>> >>, << <<"A","u","s","t","i","n",","," ","T","X">> >> }

HandlerInit ==
  /\ RetrieverIdle /\ PdfIdle /\ ResolverIdle /\ ChunkIdle
  /\ route \in { "query", "stream" }
  /\ reqQuestion \in Questions
  /\ reqLocation \in RequestLocations
  /\ rtPc = "idle"
  /\ hqPc = "idle"
  /\ hqDocs = <<>>
  /\ hqBuilt = <<>>
  /\ hqOutcome = <<>>
  /\ cancelled = FALSE
  /\ closeListener = FALSE
  /\ clientClosed = FALSE
  /\ events = <<>>
  /\ sentBeforeClose = <<>>
  /\ stChunks = <<>>
  /\ stNext = 1
  /\ postReply = <<>>

notHandler == << retrieverVars, pdfVars, resolverVars, chunkVars >>

\* the query route calls handleQuery(req.body)
PostQuery ==
  /\ route = "query" /\ rtPc = "idle"
  /\ rtPc' = "query"
  /\ hqPc' = "called"
  /\ UNCHANGED << requestVars, hqDocs, hqBuilt, hqOutcome, streamVars, postReply, notHandler >>

\* the stream route up to its await: the close listener is registered, the
\* start event is sent and handleQuery(body) is called
StreamStart ==
  /\ route = "stream" /\ rtPc = "idle"
  /\ closeListener' = TRUE
  /\ events' = Append(events, [type |-> "start", text |-> <<>>])
  /\ rtPc' = "query"
  /\ hqPc' = "called"
  /\ UNCHANGED << requestVars, hqDocs, hqBuilt, hqOutcome, cancelled, clientClosed,
                  sentBeforeClose, stChunks, stNext, postReply, notHandler >>

\* handleQuery up to its first await: the request is validated and
\* fetchAuthoritative is called
HandleQuery ==
  /\ hqPc = "called"
  /\ IF requestValid(reqQuestion, reqLocation)
     THEN hqPc' = "retrieving" /\ hqOutcome' = hqOutcome
     ELSE hqPc' = "settled" /\ hqOutcome' = Rejected("validation")
  /\ UNCHANGED << requestVars, rtPc, hqDocs, hqBuilt, streamVars, postReply, notHandler >>

\* fetchAuthoritative returns; without documents the canned answer is the
\* response
RetrievalReturns ==
  /\ hqPc = "retrieving"
  /\ \E docs \in DocLists :
       /\ hqDocs' = docs
       /\ IF docs = <<>>
          THEN /\ hqBuilt' = << fallbackResponse >>
               /\ hqOutcome' = Resolved(fallbackResponse)
               /\ hqPc' = "settled"
          ELSE /\ hqPc' = "summarizing"
               /\ UNCHANGED << hqBuilt, hqOutcome >>
  /\ UNCHANGED << requestVars, rtPc, streamVars, postReply, notHandler >>

\* fetchAuthoritative rejects, as it does when a search request throws
RetrievalRejects ==
  /\ hqPc = "retrieving"
  /\ hqOutcome' = Rejected("retrieval")
  /\ hqPc' = "settled"
  /\ UNCHANGED << requestVars, rtPc, hqDocs, hqBuilt, streamVars, postReply, notHandler >>

\* fetchAuthoritative never settles, as it does when a fetch hangs
RetrievalHangs ==
  /\ hqPc = "retrieving"
  /\ hqPc' = "hung"
  /\ UNCHANGED << requestVars, rtPc, hqDocs, hqBuilt, hqOutcome, streamVars, postReply, notHandler >>

\* the LLM call throws: the heuristic summary of the top document
LlmThrows ==
  /\ hqPc = "summarizing"
  /\ hqBuilt' = << minimalOffline(hqDocs) >>
  /\ hqOutcome' = Resolved(minimalOffline(hqDocs))
  /\ hqPc' = "settled"
  /\ UNCHANGED << requestVars, rtPc, hqDocs, streamVars, postReply, notHandler >>

\* the LLM call returns: with JSON the response is built from it and
\* validated; without, an object is built and the function ends with no
\* return statement
LlmReturns ==
  /\ hqPc = "summarizing"
  /\ \E llm \in LlmOutputs :
       IF llm.json # <<>>
       THEN /\ hqBuilt' = << jsonResponse(hqDocs, llm.json[1]) >>
            /\ hqOutcome' = IF responseValid(jsonResponse(hqDocs, llm.json[1]))
                            THEN Resolved(jsonResponse(hqDocs, llm.json[1]))
                            ELSE Rejected("response")
       ELSE /\ hqBuilt' = << minimalUnparsed(hqDocs) >>
            /\ hqOutcome' = ResolvedUndefined
  /\ hqPc' = "settled"
  /\ UNCHANGED << requestVars, rtPc, hqDocs, streamVars, postReply, notHandler >>

\* the query route sends data with the metrics, or 400 for an error
PostReplies ==
  /\ route = "query" /\ rtPc = "query"
  /\ hqOutcome # <<>>
  /\ postReply' = IF hqOutcome[1].kind = "error"
                  THEN << [ status |-> 400, data |-> <<>> ] >>
                  ELSE << [ status |-> 200, data |-> hqOutcome[1].value ] >>
  /\ rtPc' = "finished"
  /\ UNCHANGED << requestVars, queryVars, streamVars, notHandler >>

\* the close event of the request fires while the handler waits: for
\* handleQuery, which itself waits for the retriever or the LLM, or for the
\* sleep behind a delta
ClientCloses ==
  /\ route = "stream" /\ ~clientClosed
  /\ \/ rtPc = "query" /\ hqPc \in { "retrieving", "summarizing", "hung" }
     \/ rtPc = "sleep"
  /\ clientClosed' = TRUE
  /\ cancelled' = IF closeListener THEN TRUE ELSE cancelled
  /\ sentBeforeClose' = << Len(events) >>
  /\ UNCHANGED << requestVars, rtPc, queryVars, closeListener, events, stChunks, stNext,
                  postReply, notHandler >>

Apology == <<"S","o","r","r","y"," ","-"," ","I"," ","h","i","t"," ","a","n"," ","i","s","s","u","e"," ","f","e","t","c","h","i","n","g"," ","r","e","s","u","l","t","s",".","\n">>

\* handleQuery rejected: the catch sends the apology and done, and the
\* finally removes the listener
StreamCatch ==
  /\ route = "stream" /\ rtPc = "query"
  /\ hqOutcome # <<>> /\ hqOutcome[1].kind = "error"
  /\ events' = events \o << [type |-> "delta", text |-> Apology], [type |-> "done", text |-> <<>>] >>
  /\ closeListener' = FALSE
  /\ rtPc' = "finished"
  /\ UNCHANGED << requestVars, queryVars, cancelled, clientClosed, sentBeforeClose,
                  stChunks, stNext, postReply, notHandler >>

\* handleQuery resolved: return when cancelled; result.answer throws a
\* TypeError for an undefined result; else the answer is chunked
StreamResumes ==
  /\ route = "stream" /\ rtPc = "query"
  /\ hqOutcome # <<>> /\ hqOutcome[1].kind = "value"
  /\ IF cancelled
     THEN rtPc' = "finished" /\ closeListener' = FALSE /\ UNCHANGED << stChunks, stNext >>
     ELSE IF hqOutcome[1].value = <<>>
     THEN rtPc' = "failed" /\ closeListener' = FALSE /\ UNCHANGED << stChunks, stNext >>
     ELSE /\ stChunks' = chunkByWords(hqOutcome[1].value[1].answer, 64)
          /\ stNext' = 1
          /\ rtPc' = "loop"
          /\ UNCHANGED closeListener
  /\ UNCHANGED << requestVars, queryVars, cancelled, clientClosed, events, sentBeforeClose,
                  postReply, notHandler >>

\* one iteration of the delta loop up to its sleep
StreamDelta ==
  /\ route = "stream" /\ rtPc = "loop"
  /\ stNext <= Len(stChunks)
  /\ IF cancelled
     THEN rtPc' = "finished" /\ closeListener' = FALSE /\ UNCHANGED events
     ELSE /\ events' = Append(events, [type |-> "delta", text |-> stChunks[stNext]])
          /\ rtPc' = "sleep"
          /\ UNCHANGED closeListener
  /\ UNCHANGED << requestVars, queryVars, cancelled, clientClosed, sentBeforeClose,
                  stChunks, stNext, postReply, notHandler >>

\* the sleep is over
StreamWakes ==
  /\ route = "stream" /\ rtPc = "sleep"
  /\ stNext' = stNext + 1
  /\ rtPc' = "loop"
  /\ UNCHANGED << requestVars, queryVars, cancelled, closeListener, clientClosed, events,
                  sentBeforeClose, stChunks, postReply, notHandler >>

\* behind the loop: return when cancelled, else the metadata events and done
StreamFinishes ==
  /\ route = "stream" /\ rtPc = "loop"
  /\ stNext > Len(stChunks)
  /\ IF cancelled
     THEN UNCHANGED events
     ELSE events' = events \o << [type |-> "sources", text |-> <<>>], [type |-> "safety", text |-> <<>>],
                                 [type |-> "suggestions", text |-> <<>>], [type |-> "done", text |-> <<>>] >>
  /\ closeListener' = FALSE
  /\ rtPc' = "finished"
  /\ UNCHANGED << requestVars, queryVars, cancelled, clientClosed, sentBeforeClose,
                  stChunks, stNext, postReply, notHandler >>

HandlerNext ==
  \/ PostQuery \/ StreamStart
  \/ HandleQuery \/ RetrievalReturns \/ RetrievalRejects \/ RetrievalHangs
  \/ LlmThrows \/ LlmReturns
  \/ PostReplies
  \/ ClientCloses \/ StreamCatch \/ StreamResumes \/ StreamDelta \/ StreamWakes \/ StreamFinishes

SpecHandler == HandlerInit /\ [][HandlerNext]_vars

----------------------------------------------------------------------------
(* Claims about the routes and handleQuery.                                *)

EventTypes == [ i \in DOMAIN events |-> events[i].type ]

\* start, n deltas, then sources, safety, suggestions and done
FullSequence(n) ==
  << "start" >> \o [ i \in 1..n |-> "delta" ] \o << "sources", "safety", "suggestions", "done" >>

IsPrefix(s, t) == Len(s) <= Len(t) /\ s = SubSeq(t, 1, Len(s))

HandlerEnded == rtPc \in { "finished", "failed" }

PipelineThrew == hqOutcome # <<>> /\ hqOutcome[1].kind = "error"

(* C24: on a stream request whose client stays connected, the events sent  *)
(* so far are always the beginning of: start, some deltas, sources,        *)
(* safety, suggestions, done; when the handler has ended, the whole of it  *)
(* was sent, with one done at the end; and when handleQuery threw, the     *)
(* events are start, the apology delta, done.                              *)
C24_StreamEventOrder ==
  (route = "stream" /\ ~clientClosed) =>
    /\ ~PipelineThrew =>
         \E n \in 0..Len(events) : IsPrefix(EventTypes, FullSequence(n))
    /\ (HandlerEnded /\ ~PipelineThrew) =>
         \E n \in 0..Len(events) : EventTypes = FullSequence(n)
    /\ (HandlerEnded /\ PipelineThrew) =>
         /\ EventTypes = << "start", "delta", "done" >>
         /\ events[2].text = Apology

\* the sources the documents give: title, URL and the hostname of the URL
DocumentSources(docs) ==
  [ i \in DOMAIN docs |->
      [ title |-> docs[i].title, url |-> docs[i].url, publisher |-> toLowerCase(docs[i].url.host) ] ]

(* C25: when at least one document was retrieved, the sources of the       *)
(* response handleQuery builds, and of the one it resolves to, are the     *)
(* retrieved documents in their order, each with its title, its URL and    *)
(* the hostname of the URL; none is a source of the model output.          *)
C25_SourcesAreTheDocuments ==
  hqDocs # <<>> =>
    /\ hqBuilt # <<>> => hqBuilt[1].sources = DocumentSources(hqDocs)
    /\ (hqOutcome # <<>> /\ hqOutcome[1].value # <<>>) =>
         /\ hqOutcome[1].value[1].sources = DocumentSources(hqDocs)
         /\ InventedSource \notin Range(hqOutcome[1].value[1].sources)

\* the model output was JSON with a source of its own, and the response
\* lists the two retrieved documents
C25_Witness ==
  /\ hqPc = "settled"
  /\ Len(hqDocs) = 2
  /\ hqOutcome[1].value # <<>>
  /\ hqOutcome[1].value[1].safety.confidence = "high"
  /\ Len(hqOutcome[1].value[1].sources) = 2

(* C26: for a request that passes validation, once the retriever has       *)
(* returned, handleQuery resolves to a response object with an answer      *)
(* string, whichever path it takes.                                        *)
C26_AlwaysResolvesWithAnswer ==
  (hqPc = "settled" /\ requestValid(reqQuestion, reqLocation) /\ hqOutcome[1].why # "retrieval") =>
    /\ hqOutcome[1].kind = "value"
    /\ hqOutcome[1].value # <<>>
    /\ "answer" \in DOMAIN hqOutcome[1].value[1]

(* C27: once the close event has fired, the stream handler sends no        *)
(* further event; and when the handler has ended, the close listener is    *)
(* removed.                                                                *)
C27_NothingSentAfterClose ==
  /\ sentBeforeClose # <<>> => Len(events) = sentBeforeClose[1]
  /\ HandlerEnded => ~closeListener

====
